---------------------------- MODULE Spec2Model ----------------------------
(***************************************************************************)
(* A model of KnowledgeLM's download service (src/src/knowledgelm):        *)
(* KnowledgeService.process_request and its category handlers, the NSE     *)
(* feed adapter they call, and the folder-name sanitizer.                  *)
(*                                                                         *)
(* Python strings are sequences of one-character strings, so that strip,   *)
(* lower, "in" and split are computed and not assumed.  A Python dict is a *)
(* record; a key the dict lacks is a field the record lacks.               *)
(***************************************************************************)
EXTENDS Integers, Sequences, FiniteSets, TLC

----------------------------------------------------------------------------
(* Strings *)

UpperChars ==
  <<"A", "B", "C", "D", "E", "F", "G", "H", "I", "J", "K", "L", "M",
    "N", "O", "P", "Q", "R", "S", "T", "U", "V", "W", "X", "Y", "Z">>

LowerChars ==
  <<"a", "b", "c", "d", "e", "f", "g", "h", "i", "j", "k", "l", "m",
    "n", "o", "p", "q", "r", "s", "t", "u", "v", "w", "x", "y", "z">>

\* The characters str.strip() removes (the ASCII ones the inputs use).
Whitespace == {" ", "\t"}

Digits == <<"0", "1", "2", "3", "4", "5", "6", "7", "8", "9">>

IndexOf(c, chars) ==
  IF \E i \in 1..Len(chars) : chars[i] = c
  THEN CHOOSE i \in 1..Len(chars) : chars[i] = c
  ELSE 0

\* str.lower() on the letters that have a lower case, as a table.
LowerTable ==
  [c \in {UpperChars[i] : i \in 1..Len(UpperChars)} |->
     LowerChars[IndexOf(c, UpperChars)]]

\* str.upper() on the letters that have an upper case, as a table.
UpperTable ==
  [c \in {LowerChars[i] : i \in 1..Len(LowerChars)} |->
     UpperChars[IndexOf(c, LowerChars)]]

\* str.lower() on one character.
LowerChar(c) == IF c \in DOMAIN LowerTable THEN LowerTable[c] ELSE c

\* str.upper() on one character.
UpperChar(c) == IF c \in DOMAIN UpperTable THEN UpperTable[c] ELSE c

\* str.lower()
StrLower(s) == [i \in 1..Len(s) |-> LowerChar(s[i])]

\* str.upper()
StrUpper(s) == [i \in 1..Len(s) |-> UpperChar(s[i])]

RECURSIVE LStrip(_)
LStrip(s) ==
  IF s # <<>> /\ Head(s) \in Whitespace THEN LStrip(Tail(s)) ELSE s

RECURSIVE RStrip(_)
RStrip(s) ==
  IF s # <<>> /\ s[Len(s)] \in Whitespace
  THEN RStrip(SubSeq(s, 1, Len(s) - 1))
  ELSE s

\* str.strip()
StrStrip(s) == RStrip(LStrip(s))

\* Python's "needle in hay" on strings.
StrContains(hay, needle) ==
  \E i \in 1..(Len(hay) - Len(needle) + 1) :
    SubSeq(hay, i, i + Len(needle) - 1) = needle

\* s.split(sep)[-1] for a one-character separator: what follows the last sep.
RECURSIVE SplitLast(_, _)
SplitLast(s, sep) ==
  IF \E i \in 1..Len(s) : s[i] = sep
  THEN SplitLast(SubSeq(s, (CHOOSE i \in 1..Len(s) : s[i] = sep) + 1, Len(s)), sep)
  ELSE s

\* dict.get(key, default)
Get(d, key, default) == IF key \in DOMAIN d THEN d[key] ELSE default

\* bool(dict.get(key)) for a string-valued key: present and non-empty.
Truthy(d, key) == key \in DOMAIN d /\ d[key] # <<>>

\* All sequences over S of length at most n.
SeqUpTo(S, n) == UNION {[1..k -> S] : k \in 0..n}

\* The one element of a one-element set.  {F(x) : x \in {e}} computes e once,
\* however often F reads x.
The(S) == CHOOSE x \in S : TRUE

----------------------------------------------------------------------------
(* Category configuration: config.py *)

\* The keys of DOWNLOAD_CATEGORIES_CONFIG, in the dict's (iteration) order.
CategoryOrder ==
  <<"transcripts", "investor_presentations", "press_releases", "credit_rating",
    "related_party_txns", "annual_reports", "issue_documents">>

CategoryKeys == {CategoryOrder[i] : i \in 1..Len(CategoryOrder)}

\* DOWNLOAD_CATEGORIES_CONFIG[key]["enabled_arg"]
EnabledArg(key) ==
  CASE key = "transcripts" -> "download_transcripts"
    [] key = "investor_presentations" -> "download_investor_presentations"
    [] key = "press_releases" -> "download_press_releases"
    [] key = "credit_rating" -> "download_credit_rating"
    [] key = "related_party_txns" -> "download_related_party_txns"
    [] key = "annual_reports" -> "download_annual_reports"
    [] key = "issue_documents" -> "download_issue_documents"

\* DOWNLOAD_CATEGORIES_CONFIG[key]["label"]
CategoryLabel(key) ==
  CASE key = "transcripts" -> "transcript"
    [] key = "investor_presentations" -> "investor presentation"
    [] key = "press_releases" -> "press release"
    [] key = "credit_rating" -> "credit rating"
    [] key = "related_party_txns" -> "related party transaction"
    [] key = "annual_reports" -> "annual report"
    [] key = "issue_documents" -> "issue document"

----------------------------------------------------------------------------
(* The classifier: KnowledgeService._matches_filter *)

\* 'analysts/institutional investor meet/con. call updates'
DESC_TRANSCRIPTS ==
  <<"a", "n", "a", "l", "y", "s", "t", "s", "/", "i", "n", "s", "t", "i", "t", "u", "t",
     "i", "o", "n", "a", "l", " ", "i", "n", "v", "e", "s", "t", "o", "r", " ", "m", "e",
     "e", "t", "/", "c", "o", "n", ".", " ", "c", "a", "l", "l", " ", "u", "p", "d", "a",
     "t", "e", "s">>

\* 'investor presentation'
DESC_INVESTOR_PRESENTATION ==
  <<"i", "n", "v", "e", "s", "t", "o", "r", " ", "p", "r", "e", "s", "e", "n", "t", "a",
     "t", "i", "o", "n">>

\* 'press release'
DESC_PRESS_RELEASE ==
  <<"p", "r", "e", "s", "s", " ", "r", "e", "l", "e", "a", "s", "e">>

\* 'press release (revised)'
DESC_PRESS_RELEASE_REVISED ==
  <<"p", "r", "e", "s", "s", " ", "r", "e", "l", "e", "a", "s", "e", " ", "(", "r", "e",
     "v", "i", "s", "e", "d", ")">>

\* 'credit rating'
DESC_CREDIT_RATING ==
  <<"c", "r", "e", "d", "i", "t", " ", "r", "a", "t", "i", "n", "g">>

\* 'related party transaction'
DESC_RELATED_PARTY ==
  <<"r", "e", "l", "a", "t", "e", "d", " ", "p", "a", "r", "t", "y", " ", "t", "r", "a",
     "n", "s", "a", "c", "t", "i", "o", "n">>

\* 'related party transactions'
DESC_RELATED_PARTIES ==
  <<"r", "e", "l", "a", "t", "e", "d", " ", "p", "a", "r", "t", "y", " ", "t", "r", "a",
     "n", "s", "a", "c", "t", "i", "o", "n", "s">>

\* 'transcript'
KW_TRANSCRIPT ==
  <<"t", "r", "a", "n", "s", "c", "r", "i", "p", "t">>

\* _matches_filter with the description compared as given: no strip, no lower.
MatchesFilterRaw(category, item) ==
  LET desc == Get(item, "desc", <<>>)
      attortext == StrLower(Get(item, "attchmntText", <<>>))
      has_file == Truthy(item, "attchmntFile")
  IN  IF ~has_file THEN FALSE
      ELSE IF category = "transcripts"
        THEN desc = DESC_TRANSCRIPTS /\ StrContains(attortext, KW_TRANSCRIPT)
      ELSE IF category = "investor_presentations"
        THEN desc = DESC_INVESTOR_PRESENTATION
      ELSE IF category = "press_releases"
        THEN desc \in {DESC_PRESS_RELEASE, DESC_PRESS_RELEASE_REVISED}
      ELSE IF category = "credit_rating"
        THEN desc = DESC_CREDIT_RATING
      ELSE IF category = "related_party_txns"
        THEN desc \in {DESC_RELATED_PARTY, DESC_RELATED_PARTIES}
      ELSE FALSE

\* _matches_filter without its has_file guard.
MatchesFilterNoFileCheck(category, item) ==
  LET desc == StrLower(StrStrip(Get(item, "desc", <<>>)))
      attortext == StrLower(Get(item, "attchmntText", <<>>))
  IN  IF category = "transcripts"
        THEN desc = DESC_TRANSCRIPTS /\ StrContains(attortext, KW_TRANSCRIPT)
      ELSE IF category = "investor_presentations"
        THEN desc = DESC_INVESTOR_PRESENTATION
      ELSE IF category = "press_releases"
        THEN desc \in {DESC_PRESS_RELEASE, DESC_PRESS_RELEASE_REVISED}
      ELSE IF category = "credit_rating"
        THEN desc = DESC_CREDIT_RATING
      ELSE IF category = "related_party_txns"
        THEN desc \in {DESC_RELATED_PARTY, DESC_RELATED_PARTIES}
      ELSE FALSE

\* _matches_filter with the transcripts told by the attachment text alone.
MatchesFilterTranscriptByText(category, item) ==
  LET desc == StrLower(StrStrip(Get(item, "desc", <<>>)))
      attortext == StrLower(Get(item, "attchmntText", <<>>))
      has_file == Truthy(item, "attchmntFile")
  IN  IF ~has_file THEN FALSE
      ELSE IF category = "transcripts"
        THEN StrContains(attortext, KW_TRANSCRIPT)
      ELSE IF category = "investor_presentations"
        THEN desc = DESC_INVESTOR_PRESENTATION
      ELSE IF category = "press_releases"
        THEN desc \in {DESC_PRESS_RELEASE, DESC_PRESS_RELEASE_REVISED}
      ELSE IF category = "credit_rating"
        THEN desc = DESC_CREDIT_RATING
      ELSE IF category = "related_party_txns"
        THEN desc \in {DESC_RELATED_PARTY, DESC_RELATED_PARTIES}
      ELSE FALSE

\* KnowledgeService._matches_filter(category, item)
MatchesFilter(category, item) ==
  LET desc == StrLower(StrStrip(Get(item, "desc", <<>>)))
      attortext == StrLower(Get(item, "attchmntText", <<>>))
      has_file == Truthy(item, "attchmntFile")
  IN  IF ~has_file THEN FALSE
      ELSE IF category = "transcripts"
        THEN desc = DESC_TRANSCRIPTS /\ StrContains(attortext, KW_TRANSCRIPT)
      ELSE IF category = "investor_presentations"
        THEN desc = DESC_INVESTOR_PRESENTATION
      ELSE IF category = "press_releases"
        THEN desc \in {DESC_PRESS_RELEASE, DESC_PRESS_RELEASE_REVISED}
      ELSE IF category = "credit_rating"
        THEN desc = DESC_CREDIT_RATING
      ELSE IF category = "related_party_txns"
        THEN desc \in {DESC_RELATED_PARTY, DESC_RELATED_PARTIES}
      ELSE FALSE

----------------------------------------------------------------------------
(* The world the service acts on: the calls it made on its collaborators (a
   mock's call list), the folders it created, the files on disk.  A path is
   the tuple of its parts; a file is <<folder path, file name>>. *)

NewWorld == [calls |-> <<>>, dirs |-> {}, files |-> {}]

\* One call on a collaborator, recorded.
Call(w, c) == [w EXCEPT !.calls = Append(@, c)]

\* Path.mkdir(parents=True, exist_ok=True)
Mkdir(w, path) ==
  [w EXCEPT !.dirs = @ \cup {SubSeq(path, 1, k) : k \in 1..Len(path)}]

\* A listing that finds the folder empty whatever it holds.
GlobNothing(w, folder) == {}

\* set(f.name for f in folder.glob("*"))
Glob(w, folder) == {f[2] : f \in {g \in w.files : g[1] = folder}}

\* The calls of w made on function fn.
CallsOf(w, fn) == SelectSeq(w.calls, LAMBDA c : c.fn = fn)

----------------------------------------------------------------------------
(* The feed adapter: data/nse_adapter.py.  Every method wraps one call of the
   NSE library in try/except; "ok" is whether the library call returned (TRUE)
   or raised (FALSE).  A download that returns leaves a file named by the
   URL's final path segment in the destination folder. *)

\* NSEAdapter.download_document(url, destination_folder)
DownloadDocument(w, url, folder, ok) ==
  [w |-> [Call(w, [fn |-> "download_document", url |-> url, folder |-> folder])
            EXCEPT !.files = IF ok THEN @ \cup {<<folder, SplitLast(url, "/")>>} ELSE @],
   ret |-> ok]

\* NSEAdapter.download_and_extract(url, destination_folder)
DownloadAndExtract(w, url, folder, ok) ==
  [w |-> [Call(w, [fn |-> "download_and_extract", url |-> url, folder |-> folder])
            EXCEPT !.files = IF ok THEN @ \cup {<<folder, SplitLast(url, "/")>>} ELSE @],
   ret |-> ok]

\* NSEAdapter.get_annual_reports(symbol): the library's dict, {} when it raises.
GetAnnualReports(reply) == IF reply.ok THEN reply.data ELSE <<>>

\* NSEAdapter.get_announcements(symbol, from_date, to_date): [] when it raises.
GetAnnouncements(reply) == IF reply.ok THEN reply.data ELSE <<>>

\* validate_symbol that takes any answer of the quote lookup for a quote.
ValidateSymbolAnyAnswer(reply) == reply.ok

\* NSEAdapter.validate_symbol(symbol): bool(quote), False when the lookup raises.
ValidateSymbol(reply) == reply.ok /\ reply.data # <<>>

----------------------------------------------------------------------------
(* The annual-report selector: KnowledgeService._process_annual_reports *)

RECURSIVE DigitsValue(_)
DigitsValue(s) ==
  IF s = <<>> THEN 0
  ELSE 10 * DigitsValue(SubSeq(s, 1, Len(s) - 1)) + (IndexOf(s[Len(s)], Digits) - 1)

\* int(str(x).strip()): [ok, val]; not ok is the ValueError.  An optional sign,
\* then decimal digits only.
ParseInt(s) ==
  LET t == StrStrip(s)
      signed == t # <<>> /\ Head(t) \in {"+", "-"}
      body == IF signed THEN Tail(t) ELSE t
      ok == body # <<>> /\ \A i \in 1..Len(body) : IndexOf(body[i], Digits) > 0
  IN  IF ~ok THEN [ok |-> FALSE, val |-> 0]
      ELSE [ok |-> TRUE,
            val |-> IF signed /\ Head(t) = "-" THEN 0 - DigitsValue(body)
                    ELSE DigitsValue(body)]

\* doc.get("fileName") or doc.get("url") or doc.get("fileUrl") or
\* doc.get("documentUrl"): the first that is non-empty, <<>> when none is.
ResolveUrl(doc) ==
  IF Truthy(doc, "fileName") THEN doc.fileName
  ELSE IF Truthy(doc, "url") THEN doc.url
  ELSE IF Truthy(doc, "fileUrl") THEN doc.fileUrl
  ELSE IF Truthy(doc, "documentUrl") THEN doc.documentUrl
  ELSE <<>>

\* for year, docs in ar_data.items(): for doc in docs: the docs in that order.
RECURSIVE Flatten(_)
Flatten(groups) ==
  IF groups = <<>> THEN <<>> ELSE Head(groups).docs \o Flatten(Tail(groups))

\* The year test of the selector with the upper bound exclusive.
OutsideRangeUpperExclusive(yr, from_year, to_year) == yr < from_year \/ yr >= to_year

\* yr < from_date.year or yr > to_date.year
OutsideRange(yr, from_year, to_year) == yr < from_year \/ yr > to_year

\* The selector's loop body that, in all-mode, downloads a descriptor whatever
\* its toYr is.
AnnualStepAllModeSkipsYear(doc, folder, from_year, to_year, all_mode, ok, acc) ==
  LET url == ResolveUrl(doc)
      yr == ParseInt(Get(doc, "toYr", <<>>))
  IN  IF url = <<>> THEN acc
      ELSE IF ~all_mode /\ (~Truthy(doc, "toYr") \/ ~yr.ok) THEN acc
      ELSE IF ~all_mode /\ OutsideRange(yr.val, from_year, to_year) THEN acc
      ELSE The({[w |-> r.w, count |-> acc.count + (IF r.ret THEN 1 ELSE 0)] :
                  r \in {DownloadDocument(acc.w, url, folder, ok)}})

\* One pass of the selector's loop body, on descriptor doc.  acc is [w, count].
AnnualStep(doc, folder, from_year, to_year, all_mode, ok, acc) ==
  LET url == ResolveUrl(doc)
      yr == ParseInt(Get(doc, "toYr", <<>>))
  IN  IF url = <<>> \/ ~Truthy(doc, "toYr") THEN acc
      ELSE IF ~yr.ok THEN acc
      ELSE IF ~all_mode /\ OutsideRange(yr.val, from_year, to_year) THEN acc
      ELSE The({[w |-> r.w, count |-> acc.count + (IF r.ret THEN 1 ELSE 0)] :
                  r \in {DownloadDocument(acc.w, url, folder, ok)}})

\* for year, docs in ar_data.items(): for doc in docs, from descriptor i on.
RECURSIVE AnnualLoop(_, _, _, _, _, _, _, _)
AnnualLoop(docs, i, folder, from_year, to_year, all_mode, oks, acc) ==
  IF i > Len(docs) THEN acc
  ELSE The({AnnualLoop(docs, i + 1, folder, from_year, to_year, all_mode, oks, a) :
              a \in {AnnualStep(docs[i], folder, from_year, to_year, all_mode,
                                oks[i], acc)}})

\* _process_annual_reports(symbol, adapter, root_dir, from_date, to_date, all_mode)
\* reply is what the library's annual_reports answered; oks[i] whether the
\* library's download of descriptor i returned.
ProcessAnnualReports(w, root, reply, from_year, to_year, all_mode, oks) ==
  LET ar_folder == root \o <<"annual_reports">>
      w1 == Call(Mkdir(w, ar_folder), [fn |-> "get_annual_reports"])
      ar_data == GetAnnualReports(reply)
  IN  IF ar_data = <<>> THEN [w |-> w1, count |-> 0]
      ELSE AnnualLoop(Flatten(ar_data), 1, ar_folder, from_year, to_year,
                      all_mode, oks, [w |-> w1, count |-> 0])

----------------------------------------------------------------------------
(* The primary source of credit ratings: data/screener_adapter.py,
   download_credit_ratings_from_screener.  The company page is given as
   BeautifulSoup hands it over: the status, and the div.documents.credit-ratings
   blocks, each with the text of its h3 (if any) and the links of its
   ul.list-links (if any).  A link carries its href and the text of its
   "ink-600 smaller" div (if any).  What fetching a link does is the
   environment's choice, one of LinkOutcomes. *)

LinkOutcomes ==
  {"ssl_error",      \* requests.get raises requests.SSLError
   "conn_error",     \* requests.get raises anything else
   "pdf",            \* Content-Type application/pdf, the body streams to its end
   "pdf_broken",     \* Content-Type application/pdf, iter_content raises part-way
   "html_rendered",  \* another Content-Type, _download_with_selenium returns True
   "html_failed"}    \* another Content-Type, _download_with_selenium returns False

\* 'credit ratings'
H3_CREDIT_RATINGS ==
  <<"c", "r", "e", "d", "i", "t", " ", "r", "a", "t", "i", "n", "g", "s">>

\* The ASCII characters str.isalnum() accepts.
AlnumChars ==
  DOMAIN LowerTable \cup DOMAIN UpperTable \cup {Digits[i] : i \in 1..Len(Digits)}

\* str.isalnum() on one (ASCII) character.
IsAlnum(c) == c \in AlnumChars

\* filter(None, s.split(sep)): the non-empty pieces of s between separators.
RECURSIVE SplitNonEmpty(_, _)
SplitNonEmpty(s, sep) ==
  IF s = <<>> THEN <<>>
  ELSE IF Head(s) = sep THEN SplitNonEmpty(Tail(s), sep)
  ELSE LET n == IF \E i \in 1..Len(s) : s[i] = sep
                THEN (CHOOSE i \in 1..Len(s) :
                        s[i] = sep /\ \A j \in 1..(i - 1) : s[j] # sep) - 1
                ELSE Len(s)
       IN  <<SubSeq(s, 1, n)>> \o SplitNonEmpty(SubSeq(s, n + 1, Len(s)), sep)

\* sep.join(pieces)
RECURSIVE Join(_, _)
Join(pieces, sep) ==
  IF pieces = <<>> THEN <<>>
  ELSE IF Len(pieces) = 1 THEN pieces[1]
  ELSE pieces[1] \o <<sep>> \o Join(Tail(pieces), sep)

\* 'Unknown_Date'
UNKNOWN_DATE == <<"U", "n", "k", "n", "o", "w", "n", "_", "D", "a", "t", "e">>

\* date_text without the collapse of the runs of "_".
DateTextNoCollapse(link) ==
  IF "date" \notin DOMAIN link THEN UNKNOWN_DATE
  ELSE LET raw_text == StrStrip(link.date)
           safe_text == [i \in 1..Len(raw_text) |->
                           IF IsAlnum(raw_text[i]) THEN raw_text[i] ELSE "_"]
       IN  IF safe_text # <<>> THEN safe_text ELSE UNKNOWN_DATE

\* date_text of a link: the snippet with every non-alphanumeric turned into "_"
\* and the runs of "_" collapsed, 'Unknown_Date' when there is none.
DateText(link) ==
  IF "date" \notin DOMAIN link THEN UNKNOWN_DATE
  ELSE LET raw_text == StrStrip(link.date)
           safe_text == [i \in 1..Len(raw_text) |->
                           IF IsAlnum(raw_text[i]) THEN raw_text[i] ELSE "_"]
           collapsed == Join(SplitNonEmpty(safe_text, "_"), "_")
       IN  IF collapsed # <<>> THEN collapsed ELSE UNKNOWN_DATE

\* f"CreditRating-{date_text}.pdf"
CreditRatingFilename(link) ==
  <<"C", "r", "e", "d", "i", "t", "R", "a", "t", "i", "n", "g", "-">>
    \o DateText(link) \o <<".", "p", "d", "f">>

\* The first div of the page whatever its heading, as a set of at most one.
CreditRatingsDivAnyHeading(divs) == {divs[i] : i \in {j \in 1..Len(divs) : j = 1}}

\* The first div whose h3 holds 'credit ratings', as a set of at most one.
CreditRatingsDiv(divs) ==
  LET hit(i) == /\ "h3" \in DOMAIN divs[i]
                /\ StrContains(StrLower(StrStrip(divs[i].h3)), H3_CREDIT_RATINGS)
  IN  {divs[i] : i \in {j \in 1..Len(divs) : hit(j) /\ \A k \in 1..(j - 1) : ~hit(k)}}

\* What the loop body did on one link.  It is no state of the program:
\* seen says the file name was in downloaded_files when the link was reached,
\* tried that the body went on to stream or render the document, saved that
\* the file was written to its end, marked that the name was added to
\* downloaded_files, counted that count went up.
LinkNote(filename, out, acc, tried, saved, marked) ==
  [filename |-> filename, out |-> out, seen |-> filename \in acc.seen,
   tried |-> tried, saved |-> saved, marked |-> marked, counted |-> saved]

\* The loop body that never adds a file name to downloaded_files.
ScreenerStepForgetful(link, dest, out, acc) ==
  LET w1 == Call(acc.w, [fn |-> "requests.get", url |-> link.href])
      w2 == Call(w1, [fn |-> "_download_with_selenium", url |-> link.href])
  IN  The({IF out \in {"ssl_error", "conn_error"}
           THEN [acc EXCEPT !.w = w1,
                            !.notes = Append(@, LinkNote(filename, out, acc, FALSE, FALSE, FALSE))]
           ELSE IF filename \in acc.seen
             THEN [acc EXCEPT !.w = w1,
                              !.notes = Append(@, LinkNote(filename, out, acc, FALSE, FALSE, FALSE))]
           ELSE IF out = "pdf"
             THEN [w |-> [w1 EXCEPT !.files = @ \cup {<<dest, filename>>}],
                   count |-> acc.count + 1, seen |-> acc.seen,
                   notes |-> Append(acc.notes, LinkNote(filename, out, acc, TRUE, TRUE, FALSE))]
           ELSE IF out = "pdf_broken"
             THEN [acc EXCEPT !.w = [w1 EXCEPT !.files = @ \cup {<<dest, filename>>}],
                              !.notes = Append(@, LinkNote(filename, out, acc, TRUE, FALSE, FALSE))]
           ELSE IF out = "html_rendered"
             THEN [w |-> [w2 EXCEPT !.files = @ \cup {<<dest, filename>>}],
                   count |-> acc.count + 1, seen |-> acc.seen,
                   notes |-> Append(acc.notes, LinkNote(filename, out, acc, TRUE, TRUE, FALSE))]
           ELSE [acc EXCEPT !.w = w2,
                            !.notes = Append(@, LinkNote(filename, out, acc, TRUE, FALSE, FALSE))] :
             filename \in {CreditRatingFilename(link)}})

\* One pass of the scraper's loop body, on one link.  acc is [w, count, seen,
\* notes]; seen is downloaded_files.
ScreenerStep(link, dest, out, acc) ==
  LET w1 == Call(acc.w, [fn |-> "requests.get", url |-> link.href])
      w2 == Call(w1, [fn |-> "_download_with_selenium", url |-> link.href])
  IN  The({IF out \in {"ssl_error", "conn_error"}
           THEN [acc EXCEPT !.w = w1,
                            !.notes = Append(@, LinkNote(filename, out, acc, FALSE, FALSE, FALSE))]
           ELSE IF filename \in acc.seen
             THEN [acc EXCEPT !.w = w1,
                              !.notes = Append(@, LinkNote(filename, out, acc, FALSE, FALSE, FALSE))]
           ELSE IF out = "pdf"
             THEN [w |-> [w1 EXCEPT !.files = @ \cup {<<dest, filename>>}],
                   count |-> acc.count + 1, seen |-> acc.seen \cup {filename},
                   notes |-> Append(acc.notes, LinkNote(filename, out, acc, TRUE, TRUE, TRUE))]
           ELSE IF out = "pdf_broken"
             THEN [acc EXCEPT !.w = [w1 EXCEPT !.files = @ \cup {<<dest, filename>>}],
                              !.notes = Append(@, LinkNote(filename, out, acc, TRUE, FALSE, FALSE))]
           ELSE IF out = "html_rendered"
             THEN [w |-> [w2 EXCEPT !.files = @ \cup {<<dest, filename>>}],
                   count |-> acc.count + 1, seen |-> acc.seen \cup {filename},
                   notes |-> Append(acc.notes, LinkNote(filename, out, acc, TRUE, TRUE, TRUE))]
           ELSE [acc EXCEPT !.w = w2,
                            !.notes = Append(@, LinkNote(filename, out, acc, TRUE, FALSE, FALSE))] :
             filename \in {CreditRatingFilename(link)}})

\* The loop that ends at the first link whose fetch or render fails.
RECURSIVE ScreenerLoopStopsOnError(_, _, _, _, _)
ScreenerLoopStopsOnError(links, i, dest, outs, acc) ==
  IF i > Len(links) THEN acc
  ELSE IF outs[i] \in {"ssl_error", "conn_error", "pdf_broken", "html_failed"}
    THEN ScreenerStep(links[i], dest, outs[i], acc)
  ELSE The({ScreenerLoopStopsOnError(links, i + 1, dest, outs, a) :
              a \in {ScreenerStep(links[i], dest, outs[i], acc)}})

\* for a in links, from link i on.
RECURSIVE ScreenerLoop(_, _, _, _, _)
ScreenerLoop(links, i, dest, outs, acc) ==
  IF i > Len(links) THEN acc
  ELSE The({ScreenerLoop(links, i + 1, dest, outs, a) :
              a \in {ScreenerStep(links[i], dest, outs[i], acc)}})

\* download_credit_ratings_from_screener(symbol, download_folder):
\* [w, count, notes].  page is what the company page answered (page.ok:
\* requests.get returned).
DownloadCreditRatingsFromScreener(w, root, page, outs) ==
  LET w1 == Call(w, [fn |-> "download_credit_ratings_from_screener"])
      dest == root \o <<"credit_rating">>
      w2 == Mkdir(w1, dest)
      nothing == [w |-> w1, count |-> 0, notes |-> <<>>]
  IN  IF ~page.ok \/ page.status # 200 THEN nothing
      ELSE The({IF div = {} THEN nothing
                ELSE IF "ul" \notin DOMAIN The(div) THEN nothing
                ELSE IF The(div).ul = <<>> THEN nothing
                ELSE The({[w |-> r.w, count |-> r.count, notes |-> r.notes] :
                            r \in {ScreenerLoop(The(div).ul, 1, dest, outs,
                                                [w |-> w2, count |-> 0,
                                                 seen |-> Glob(w2, dest),
                                                 notes |-> <<>>])}}) :
                  div \in {CreditRatingsDiv(page.divs)}})

\* The links the scraper walks on this page (none when it returns early).
PageLinks(page) ==
  LET div == CreditRatingsDiv(page.divs)
      d == CHOOSE x \in div : TRUE
  IN  IF ~page.ok \/ page.status # 200 \/ div = {} THEN <<>>
      ELSE IF "ul" \notin DOMAIN d THEN <<>>
      ELSE d.ul

----------------------------------------------------------------------------
(* The credit-rating handler: KnowledgeService._process_credit_ratings *)

\* The fallback loop's body with the file name never added to the dedupe set.
CreditStepForgetful(item, folder, ok, acc) ==
  LET url == Get(item, "attchmntFile", <<>>)
  IN  The({LET attempt == matched /\ url # <<>> /\ filename \notin acc.seen
               note == [matched |-> matched, url |-> url,
                        on_disk |-> filename \in Glob(acc.w, folder),
                        attempted |-> attempt]
           IN  IF ~attempt
               THEN [acc EXCEPT !.trail = Append(@, note @@ [ret |-> FALSE])]
               ELSE The({[w |-> r.w,
                          count |-> acc.count + (IF r.ret THEN 1 ELSE 0),
                          seen |-> acc.seen,
                          trail |-> Append(acc.trail, note @@ [ret |-> r.ret])] :
                           r \in {DownloadDocument(acc.w, url, folder, ok)}}) :
             matched \in {MatchesFilter("credit_rating", item)},
             filename \in {SplitLast(url, "/")}})

\* One pass of the fallback loop's body, on one record.  acc is [w, count,
\* seen, trail]; seen is downloaded_files.  trail is no state of the program:
\* it notes, for each record visited, whether it matched, whether its file
\* name was in the folder at that moment, whether a download was attempted and
\* what that returned.
CreditStep(item, folder, ok, acc) ==
  LET url == Get(item, "attchmntFile", <<>>)
  IN  The({LET attempt == matched /\ url # <<>> /\ filename \notin acc.seen
               note == [matched |-> matched, url |-> url,
                        on_disk |-> filename \in Glob(acc.w, folder),
                        attempted |-> attempt]
           IN  IF ~attempt
               THEN [acc EXCEPT !.trail = Append(@, note @@ [ret |-> FALSE])]
               ELSE The({[w |-> r.w,
                          count |-> acc.count + (IF r.ret THEN 1 ELSE 0),
                          seen |-> IF r.ret THEN acc.seen \cup {filename} ELSE acc.seen,
                          trail |-> Append(acc.trail, note @@ [ret |-> r.ret])] :
                           r \in {DownloadDocument(acc.w, url, folder, ok)}}) :
             matched \in {MatchesFilter("credit_rating", item)},
             filename \in {SplitLast(url, "/")}})

\* for item in announcements, from record i on.
RECURSIVE CreditLoop(_, _, _, _, _)
CreditLoop(items, i, folder, oks, acc) ==
  IF i > Len(items) THEN acc
  ELSE The({CreditLoop(items, i + 1, folder, oks, a) :
              a \in {CreditStep(items[i], folder, oks[i], acc)}})

\* The fallback of the handler: the scan of the filing list, after the primary
\* source (p) returned 0.
CreditFallback(p, announcements, cat_folder, oks) ==
  The({[w |-> r.w, count |-> r.count, primary |-> p.count, trail |-> r.trail] :
         r \in {CreditLoop(announcements, 1, cat_folder, oks,
                           [w |-> p.w, count |-> 0,
                            seen |-> Glob(p.w, cat_folder), trail |-> <<>>])}})

\* The handler with the two sources merged: the fallback runs whatever the
\* primary source returned, and the counts add up.
ProcessCreditRatingsAdditive(w, root, announcements, page, outs, oks) ==
  LET cat_folder == root \o <<"credit_rating">>
  IN  The({The({[f EXCEPT !.count = p.count + f.count] :
                  f \in {CreditFallback(p, announcements, cat_folder, oks)}}) :
             p \in {DownloadCreditRatingsFromScreener(Mkdir(w, cat_folder), root,
                                                      page, outs)}})

\* _process_credit_ratings(symbol, announcements, adapter, root_dir):
\* [w, count, primary, trail]; primary is primary_count.
ProcessCreditRatings(w, root, announcements, page, outs, oks) ==
  LET cat_folder == root \o <<"credit_rating">>
  IN  The({IF p.count > 0
           THEN [w |-> p.w, count |-> p.count, primary |-> p.count, trail |-> <<>>]
           ELSE CreditFallback(p, announcements, cat_folder, oks) :
             p \in {DownloadCreditRatingsFromScreener(Mkdir(w, cat_folder), root,
                                                      page, outs)}})

----------------------------------------------------------------------------
(* The issue-document handler: KnowledgeService._process_issue_documents and
   ISSUE_DOCS_CONFIG.  feed.company is what the library's equityMetaInfo
   answered, feed.issue[doc_type] what the endpoint answered, feed.down the
   URLs whose download the library fails on. *)

\* ISSUE_DOCS_FOLDER
ISSUE_DOCS_FOLDER == "issue_documents"

\* ISSUE_DOCS_CONFIG, in the dict's (iteration) order.
ISSUE_DOCS_CONFIG ==
  <<[doc_type |-> "offer_documents", label |-> "Offer Documents (IPO)",
     api_path |-> "/corporates/offerdocs", api_params |-> "index=equities",
     attachment_fields |-> <<"fpAttach">>, subfolder |-> "offer_documents",
     symbol_reliable |-> FALSE],
    [doc_type |-> "rights_issue", label |-> "Rights Issue",
     api_path |-> "/corporates/offerdocs/rights", api_params |-> "index=equities",
     attachment_fields |-> <<"draftAttch", "finalAttach">>,
     subfolder |-> "rights_issue", symbol_reliable |-> TRUE],
    [doc_type |-> "qip_offer", label |-> "QIP Offer",
     api_path |-> "/corporates/offerdocs/rights", api_params |-> "index=qip",
     attachment_fields |-> <<"attachFile">>, subfolder |-> "qip_offer",
     symbol_reliable |-> FALSE],
    [doc_type |-> "info_memorandum", label |-> "Information Memorandum",
     api_path |-> "/corporates/offerdocs/arrangementscheme/infomemo",
     api_params |-> "", attachment_fields |-> <<"date_attachmnt">>,
     subfolder |-> "info_memorandum", symbol_reliable |-> FALSE],
    [doc_type |-> "scheme_document", label |-> "Scheme of Arrangement",
     api_path |-> "/corporates/offerdocs/arrangementscheme",
     api_params |-> "", attachment_fields |-> <<"date_attachmnt">>,
     subfolder |-> "scheme_document", symbol_reliable |-> FALSE]>>

IssueDocTypes == {ISSUE_DOCS_CONFIG[i].doc_type : i \in 1..Len(ISSUE_DOCS_CONFIG)}

IssueLabels == {ISSUE_DOCS_CONFIG[i].label : i \in 1..Len(ISSUE_DOCS_CONFIG)}

\* NSEAdapter.get_issue_documents(api_path, params): [] when the request raises.
GetIssueDocuments(reply) == IF reply.ok THEN reply.data ELSE <<>>

\* NSEAdapter.get_company_name(symbol): meta.get("companyName", ""), "" when
\* the lookup raises.
GetCompanyName(reply) ==
  IF reply.ok THEN Get(reply.data, "companyName", <<>>) ELSE <<>>

\* '-', 'null'
PLACEHOLDER_DASH == <<"-">>
PLACEHOLDER_NULL == <<"n", "u", "l", "l">>

\* The test that, on an endpoint whose symbol is reliable, also keeps a record
\* whose company matches.
IssueMatchesSymbolOrCompany(config, doc, symbol, company_name) ==
  \/ /\ config.symbol_reliable
     /\ StrUpper(StrStrip(Get(doc, "symbol", <<>>))) = StrUpper(symbol)
  \/ /\ company_name # <<>>
     /\ \E pair \in {<<StrLower(StrStrip(company_name)),
                       StrLower(StrStrip(Get(doc, "company", <<>>)))>>} :
          \/ StrContains(pair[2], pair[1])
          \/ StrContains(pair[1], pair[2])

\* The test that, on the company name, keeps a record only when its company
\* field contains the resolved name.
IssueMatchesOneDirection(config, doc, symbol, company_name) ==
  IF config.symbol_reliable
  THEN StrUpper(StrStrip(Get(doc, "symbol", <<>>))) = StrUpper(symbol)
  ELSE /\ company_name # <<>>
       /\ StrContains(StrLower(StrStrip(Get(doc, "company", <<>>))),
                      StrLower(StrStrip(company_name)))

\* The test that, where no company name was resolved, goes by the symbol on
\* every endpoint.
IssueMatchesSymbolWhenNameless(config, doc, symbol, company_name) ==
  IF config.symbol_reliable \/ company_name = <<>>
  THEN StrUpper(StrStrip(Get(doc, "symbol", <<>>))) = StrUpper(symbol)
  ELSE \E pair \in {<<StrLower(StrStrip(company_name)),
                      StrLower(StrStrip(Get(doc, "company", <<>>)))>>} :
         \/ StrContains(pair[2], pair[1])
         \/ StrContains(pair[1], pair[2])

\* The test that keeps a record of an endpoint: on the symbol where the
\* endpoint's symbol is reliable, on the company name elsewhere.
IssueMatches(config, doc, symbol, company_name) ==
  IF config.symbol_reliable
  THEN StrUpper(StrStrip(Get(doc, "symbol", <<>>))) = StrUpper(symbol)
  ELSE /\ company_name # <<>>
       /\ \E pair \in {<<StrLower(StrStrip(company_name)),
                         StrLower(StrStrip(Get(doc, "company", <<>>)))>>} :
            \/ StrContains(pair[2], pair[1])
            \/ StrContains(pair[1], pair[2])

\* The two loops that leave a record at its first field with a usable value.
RECURSIVE IssueUrlsFirstPresentOnly(_, _, _, _)
IssueUrlsFirstPresentOnly(matching, fields, d, f) ==
  IF d > Len(matching) THEN <<>>
  ELSE IF f > Len(fields) THEN IssueUrlsFirstPresentOnly(matching, fields, d + 1, 1)
  ELSE LET url == StrStrip(Get(matching[d], fields[f], <<>>))
       IN  IF url = <<>> \/ url = PLACEHOLDER_DASH \/ url = PLACEHOLDER_NULL
           THEN IssueUrlsFirstPresentOnly(matching, fields, d, f + 1)
           ELSE <<url>> \o IssueUrlsFirstPresentOnly(matching, fields, d + 1, 1)

\* str(doc.get(field, "") or "").strip() for each field of each record, in the
\* order of the two loops, without the values that are skipped.
RECURSIVE IssueUrls(_, _, _, _)
IssueUrls(matching, fields, d, f) ==
  IF d > Len(matching) THEN <<>>
  ELSE IF f > Len(fields) THEN IssueUrls(matching, fields, d + 1, 1)
  ELSE LET url == StrStrip(Get(matching[d], fields[f], <<>>))
       IN  (IF url = <<>> \/ url = PLACEHOLDER_DASH \/ url = PLACEHOLDER_NULL
            THEN <<>> ELSE <<url>>)
             \o IssueUrls(matching, fields, d, f + 1)

\* The downloads of one endpoint, from URL i on.  acc is [w, count].
RECURSIVE IssueDownloadLoop(_, _, _, _, _)
IssueDownloadLoop(urls, i, doc_folder, down, acc) ==
  IF i > Len(urls) THEN acc
  ELSE The({IssueDownloadLoop(urls, i + 1, doc_folder, down,
                              [w |-> r.w,
                               count |-> acc.count + (IF r.ret THEN 1 ELSE 0)]) :
              r \in {DownloadAndExtract(acc.w, urls[i], doc_folder,
                                        urls[i] \notin down)}})

\* One pass of the handler's loop with the label of an endpoint that answered
\* nothing left out of the mapping.
IssueStepSilentOnEmpty(config, symbol, company_name, feed, issue_dir, acc) ==
  LET w1 == Call(acc.w, [fn |-> "get_issue_documents", api_path |-> config.api_path,
                         api_params |-> config.api_params])
      doc_folder == issue_dir \o <<config.subfolder>>
  IN  The({IF documents = <<>> THEN [w |-> w1, counts |-> acc.counts]
           ELSE The({IF matching = <<>>
                     THEN [w |-> w1, counts |-> (config.label :> 0) @@ acc.counts]
                     ELSE The({[w |-> r.w,
                                counts |-> (config.label :> r.count) @@ acc.counts] :
                                 r \in {IssueDownloadLoop(
                                          IssueUrls(matching, config.attachment_fields,
                                                    1, 1),
                                          1, doc_folder, feed.down,
                                          [w |-> Mkdir(w1, doc_folder),
                                           count |-> 0])}}) :
                       matching \in {SelectSeq(documents,
                                       LAMBDA doc : IssueMatches(config, doc, symbol,
                                                                 company_name))}}) :
             documents \in {GetIssueDocuments(feed.issue[config.doc_type])}})

\* One pass of the handler's loop, on one endpoint.  acc is [w, counts].
IssueStep(config, symbol, company_name, feed, issue_dir, acc) ==
  LET w1 == Call(acc.w, [fn |-> "get_issue_documents", api_path |-> config.api_path,
                         api_params |-> config.api_params])
      doc_folder == issue_dir \o <<config.subfolder>>
  IN  The({IF documents = <<>>
           THEN [w |-> w1, counts |-> (config.label :> 0) @@ acc.counts]
           ELSE The({IF matching = <<>>
                     THEN [w |-> w1, counts |-> (config.label :> 0) @@ acc.counts]
                     ELSE The({[w |-> r.w,
                                counts |-> (config.label :> r.count) @@ acc.counts] :
                                 r \in {IssueDownloadLoop(
                                          IssueUrls(matching, config.attachment_fields,
                                                    1, 1),
                                          1, doc_folder, feed.down,
                                          [w |-> Mkdir(w1, doc_folder),
                                           count |-> 0])}}) :
                       matching \in {SelectSeq(documents,
                                       LAMBDA doc : IssueMatches(config, doc, symbol,
                                                                 company_name))}}) :
             documents \in {GetIssueDocuments(feed.issue[config.doc_type])}})

\* for doc_type, config in ISSUE_DOCS_CONFIG.items(), from endpoint i on.
RECURSIVE IssueLoop(_, _, _, _, _, _)
IssueLoop(i, symbol, company_name, feed, issue_dir, acc) ==
  IF i > Len(ISSUE_DOCS_CONFIG) THEN acc
  ELSE The({IssueLoop(i + 1, symbol, company_name, feed, issue_dir, a) :
              a \in {IssueStep(ISSUE_DOCS_CONFIG[i], symbol, company_name, feed,
                               issue_dir, acc)}})

\* _process_issue_documents(symbol, adapter, root_dir): [w, counts]
ProcessIssueDocuments(w, root, symbol, feed) ==
  LET issue_dir == root \o <<ISSUE_DOCS_FOLDER>>
      w1 == Call(Mkdir(w, issue_dir), [fn |-> "get_company_name"])
  IN  The({IssueLoop(1, symbol, company_name, feed, issue_dir,
                     [w |-> w1, counts |-> <<>>]) :
             company_name \in {GetCompanyName(feed.company)}})

----------------------------------------------------------------------------
(* The folder-name sanitizer: utils/file_utils.py *)

\* The characters of the class [<>:"/\|?*]
ForbiddenChars == {"<", ">", ":", "\"", "/", "\\", "|", "?", "*"}

\* '..'
DOT_DOT == <<".", ".">>

\* sanitize_folder_name(name): [ok, val]; not ok is the ValueError.
SanitizeFolderName(name) ==
  LET cleaned_name == StrStrip(SelectSeq(name, LAMBDA c : c \notin ForbiddenChars))
  IN  IF name = <<>> \/ StrStrip(name) = <<>> THEN [ok |-> FALSE, val |-> <<>>]
      ELSE IF \/ StrContains(name, DOT_DOT)
              \/ StrContains(name, <<"/">>)
              \/ StrContains(name, <<"\\">>)
        THEN [ok |-> FALSE, val |-> <<>>]
      ELSE IF cleaned_name = <<>> THEN [ok |-> FALSE, val |-> <<>>]
      ELSE [ok |-> TRUE, val |-> cleaned_name]

\* Path(base_dir) / name, for a name without separators: the part '.' is
\* dropped by pathlib.
PathJoin(base_dir, name) == IF name = <<".">> THEN base_dir ELSE base_dir \o <<name>>

\* get_download_path(base_dir, folder_name): [ok, val]
GetDownloadPath(base_dir, folder_name) ==
  LET safe_name == SanitizeFolderName(folder_name)
  IN  IF ~safe_name.ok THEN [ok |-> FALSE, val |-> <<>>]
      ELSE [ok |-> TRUE, val |-> PathJoin(base_dir, safe_name.val)]

----------------------------------------------------------------------------
(* The request: KnowledgeService.process_request.  feed is everything the
   collaborators answer during the call: quote, announcements, annual, page
   and outs, company, issue, down. *)

\* Step 1 with the adapter built before the folder name is looked at.
SetupFolderAdapterFirst(w, base_path, folder_name) ==
  LET download_dir == GetDownloadPath(base_path, folder_name)
      w1 == Call(w, [fn |-> "NSEAdapter"])
  IN  IF ~download_dir.ok THEN [ok |-> FALSE, w |-> w1, download_dir |-> <<>>]
      ELSE [ok |-> TRUE, w |-> Mkdir(w1, download_dir.val),
            download_dir |-> download_dir.val]

\* Step 1, the try block: get_download_path, then mkdir.  Not ok is the
\* ValueError, raised again.
SetupFolder(w, base_path, folder_name) ==
  LET download_dir == GetDownloadPath(base_path, folder_name)
  IN  IF ~download_dir.ok THEN [ok |-> FALSE, w |-> w, download_dir |-> <<>>]
      ELSE [ok |-> TRUE, w |-> Mkdir(w, download_dir.val),
            download_dir |-> download_dir.val]

\* options.get(config["enabled_arg"], False)
Enabled(options, key) ==
  EnabledArg(key) \in DOMAIN options /\ options[EnabledArg(key)]

\* The loop of a standard category that gives up at the first download that
\* fails.
RECURSIVE StandardLoopStopsOnFailure(_, _, _, _, _, _)
StandardLoopStopsOnFailure(cat_key, items, i, cat_folder, down, acc) ==
  IF i > Len(items) THEN acc
  ELSE IF /\ MatchesFilter(cat_key, items[i])
          /\ Get(items[i], "attchmntFile", <<>>) # <<>>
    THEN The({IF r.ret
              THEN StandardLoopStopsOnFailure(cat_key, items, i + 1, cat_folder, down,
                                              [w |-> r.w, count |-> acc.count + 1])
              ELSE [w |-> r.w, count |-> acc.count] :
                r \in {DownloadDocument(acc.w, items[i].attchmntFile, cat_folder,
                                        items[i].attchmntFile \notin down)}})
  ELSE StandardLoopStopsOnFailure(cat_key, items, i + 1, cat_folder, down, acc)

\* The loop of a standard category that leaves out a record whose file is in
\* the folder already.
RECURSIVE StandardLoopSkipsExisting(_, _, _, _, _, _)
StandardLoopSkipsExisting(cat_key, items, i, cat_folder, down, acc) ==
  IF i > Len(items) THEN acc
  ELSE The({StandardLoopSkipsExisting(cat_key, items, i + 1, cat_folder, down, a) :
              a \in {IF /\ MatchesFilter(cat_key, items[i])
                        /\ Get(items[i], "attchmntFile", <<>>) # <<>>
                        /\ SplitLast(items[i].attchmntFile, "/")
                             \notin Glob(acc.w, cat_folder)
                     THEN The({[w |-> r.w,
                                count |-> acc.count + (IF r.ret THEN 1 ELSE 0)] :
                                 r \in {DownloadDocument(
                                          acc.w, items[i].attchmntFile, cat_folder,
                                          items[i].attchmntFile \notin down)}})
                     ELSE acc}})

\* The loop of a standard category over the filing list, from record i on.
\* acc is [w, count].
RECURSIVE StandardLoop(_, _, _, _, _, _)
StandardLoop(cat_key, items, i, cat_folder, down, acc) ==
  IF i > Len(items) THEN acc
  ELSE The({StandardLoop(cat_key, items, i + 1, cat_folder, down, a) :
              a \in {IF /\ MatchesFilter(cat_key, items[i])
                        /\ Get(items[i], "attchmntFile", <<>>) # <<>>
                     THEN The({[w |-> r.w,
                                count |-> acc.count + (IF r.ret THEN 1 ELSE 0)] :
                                 r \in {DownloadDocument(
                                          acc.w, items[i].attchmntFile, cat_folder,
                                          items[i].attchmntFile \notin down)}})
                     ELSE acc}})

\* Whether the library's download returns, for each descriptor of the listing.
AnnualOks(reply, down) ==
  LET docs == Flatten(GetAnnualReports(reply))
  IN  [i \in 1..Len(docs) |-> ResolveUrl(docs[i]) \notin down]

\* Whether the library's download returns, for each record of the filing list.
AnnouncementOks(announcements, down) ==
  [i \in 1..Len(announcements) |->
     Get(announcements[i], "attchmntFile", <<>>) \notin down]

\* One pass of the category loop with the five endpoint counts of the issue
\* documents dropped instead of merged.
CategoryStepDropsIssueCounts(cat_key, a, acc) ==
  IF ~Enabled(a.options, cat_key) THEN acc
  ELSE IF cat_key = "annual_reports"
    THEN The({[w |-> r.w, counts |-> (CategoryLabel(cat_key) :> r.count) @@ acc.counts] :
                r \in {ProcessAnnualReports(acc.w, a.download_dir, a.feed.annual,
                                            a.from_year, a.to_year, a.all_mode,
                                            AnnualOks(a.feed.annual, a.feed.down))}})
  ELSE IF cat_key = "credit_rating"
    THEN The({[w |-> r.w, counts |-> (CategoryLabel(cat_key) :> r.count) @@ acc.counts] :
                r \in {ProcessCreditRatings(acc.w, a.download_dir, a.announcements,
                                            a.feed.page, a.feed.outs,
                                            AnnouncementOks(a.announcements,
                                                            a.feed.down))}})
  ELSE IF cat_key = "issue_documents"
    THEN The({[w |-> r.w, counts |-> acc.counts] :
                r \in {ProcessIssueDocuments(acc.w, a.download_dir, a.symbol, a.feed)}})
  ELSE The({[w |-> r.w, counts |-> (CategoryLabel(cat_key) :> r.count) @@ acc.counts] :
              r \in {StandardLoop(cat_key, a.announcements, 1,
                                  a.download_dir \o <<cat_key>>, a.feed.down,
                                  [w |-> Mkdir(acc.w, a.download_dir \o <<cat_key>>),
                                   count |-> 0])}})

\* One pass of the category loop that records a category's count only when
\* its handler downloaded something.
CategoryStepSkipsEmptyCategory(cat_key, a, acc) ==
  IF ~Enabled(a.options, cat_key) THEN acc
  ELSE IF cat_key = "annual_reports"
    THEN The({[w |-> r.w,
               counts |-> IF r.count = 0 THEN acc.counts
                          ELSE (CategoryLabel(cat_key) :> r.count) @@ acc.counts] :
                r \in {ProcessAnnualReports(acc.w, a.download_dir, a.feed.annual,
                                            a.from_year, a.to_year, a.all_mode,
                                            AnnualOks(a.feed.annual, a.feed.down))}})
  ELSE IF cat_key = "credit_rating"
    THEN The({[w |-> r.w,
               counts |-> IF r.count = 0 THEN acc.counts
                          ELSE (CategoryLabel(cat_key) :> r.count) @@ acc.counts] :
                r \in {ProcessCreditRatings(acc.w, a.download_dir, a.announcements,
                                            a.feed.page, a.feed.outs,
                                            AnnouncementOks(a.announcements,
                                                            a.feed.down))}})
  ELSE IF cat_key = "issue_documents"
    THEN The({[w |-> r.w, counts |-> r.counts @@ acc.counts] :
                r \in {ProcessIssueDocuments(acc.w, a.download_dir, a.symbol, a.feed)}})
  ELSE The({[w |-> r.w,
             counts |-> IF r.count = 0 THEN acc.counts
                        ELSE (CategoryLabel(cat_key) :> r.count) @@ acc.counts] :
              r \in {StandardLoop(cat_key, a.announcements, 1,
                                  a.download_dir \o <<cat_key>>, a.feed.down,
                                  [w |-> Mkdir(acc.w, a.download_dir \o <<cat_key>>),
                                   count |-> 0])}})

\* One pass of the category loop, on one category.  a holds the arguments of
\* the request, its folder, the filing list and the feed; acc is [w, counts].
CategoryStep(cat_key, a, acc) ==
  IF ~Enabled(a.options, cat_key) THEN acc
  ELSE IF cat_key = "annual_reports"
    THEN The({[w |-> r.w, counts |-> (CategoryLabel(cat_key) :> r.count) @@ acc.counts] :
                r \in {ProcessAnnualReports(acc.w, a.download_dir, a.feed.annual,
                                            a.from_year, a.to_year, a.all_mode,
                                            AnnualOks(a.feed.annual, a.feed.down))}})
  ELSE IF cat_key = "credit_rating"
    THEN The({[w |-> r.w, counts |-> (CategoryLabel(cat_key) :> r.count) @@ acc.counts] :
                r \in {ProcessCreditRatings(acc.w, a.download_dir, a.announcements,
                                            a.feed.page, a.feed.outs,
                                            AnnouncementOks(a.announcements,
                                                            a.feed.down))}})
  ELSE IF cat_key = "issue_documents"
    THEN The({[w |-> r.w, counts |-> r.counts @@ acc.counts] :
                r \in {ProcessIssueDocuments(acc.w, a.download_dir, a.symbol, a.feed)}})
  ELSE The({[w |-> r.w, counts |-> (CategoryLabel(cat_key) :> r.count) @@ acc.counts] :
              r \in {StandardLoop(cat_key, a.announcements, 1,
                                  a.download_dir \o <<cat_key>>, a.feed.down,
                                  [w |-> Mkdir(acc.w, a.download_dir \o <<cat_key>>),
                                   count |-> 0])}})

\* for cat_key, config in DOWNLOAD_CATEGORIES_CONFIG.items(), from category i on.
RECURSIVE CategoryLoop(_, _, _)
CategoryLoop(i, a, acc) ==
  IF i > Len(CategoryOrder) THEN acc
  ELSE The({CategoryLoop(i + 1, a, nxt) :
              nxt \in {CategoryStep(CategoryOrder[i], a, acc)}})

\* process_request with the filing list fetched after the categories were
\* processed (which then see an empty list).
ProcessRequestFetchesLast(w, base_path, args, feed) ==
  The({IF ~setup.ok
       THEN [w |-> setup.w, raised |-> "invalid_folder", announcements |-> <<>>,
             counts |-> <<>>]
       ELSE LET w1 == Call(Call(setup.w, [fn |-> "NSEAdapter"]),
                           [fn |-> "validate_symbol"])
                announcements == GetAnnouncements(feed.announcements)
            IN  IF ~ValidateSymbol(feed.quote)
                THEN [w |-> w1, raised |-> "invalid_symbol", announcements |-> <<>>,
                      counts |-> <<>>]
                ELSE The({[w |-> Call(r.w, [fn |-> "get_announcements"]),
                           raised |-> "no",
                           announcements |-> announcements, counts |-> r.counts] :
                            r \in {CategoryLoop(
                                     1,
                                     [symbol |-> args.symbol,
                                      from_year |-> args.from_year,
                                      to_year |-> args.to_year,
                                      options |-> args.options,
                                      all_mode |-> args.all_mode,
                                      download_dir |-> setup.download_dir,
                                      announcements |-> <<>>,
                                      feed |-> feed],
                                     [w |-> w1, counts |-> <<>>])}}) :
         setup \in {SetupFolder(w, base_path, args.folder_name)}})

\* process_request with the symbol validated after the categories were
\* processed.
ProcessRequestValidatesLast(w, base_path, args, feed) ==
  The({IF ~setup.ok
       THEN [w |-> setup.w, raised |-> "invalid_folder", announcements |-> <<>>,
             counts |-> <<>>]
       ELSE LET w1 == Call(setup.w, [fn |-> "NSEAdapter"])
                w2 == Call(w1, [fn |-> "get_announcements"])
                announcements == GetAnnouncements(feed.announcements)
            IN  The({IF ~ValidateSymbol(feed.quote)
                     THEN [w |-> Call(r.w, [fn |-> "validate_symbol"]),
                           raised |-> "invalid_symbol", announcements |-> <<>>,
                           counts |-> <<>>]
                     ELSE [w |-> Call(r.w, [fn |-> "validate_symbol"]), raised |-> "no",
                           announcements |-> announcements, counts |-> r.counts] :
                       r \in {CategoryLoop(
                                1,
                                [symbol |-> args.symbol,
                                 from_year |-> args.from_year,
                                 to_year |-> args.to_year,
                                 options |-> args.options,
                                 all_mode |-> args.all_mode,
                                 download_dir |-> setup.download_dir,
                                 announcements |-> announcements,
                                 feed |-> feed],
                                [w |-> w2, counts |-> <<>>])}}) :
         setup \in {SetupFolder(w, base_path, args.folder_name)}})

\* process_request(symbol, from_date, to_date, folder_name, options,
\* annual_reports_all_mode): [w, raised, announcements, counts].  raised is
\* "no" when the call returns (announcements, counts), and names the ValueError
\* otherwise.
ProcessRequest(w, base_path, args, feed) ==
  The({IF ~setup.ok
       THEN [w |-> setup.w, raised |-> "invalid_folder", announcements |-> <<>>,
             counts |-> <<>>]
       ELSE LET w1 == Call(Call(setup.w, [fn |-> "NSEAdapter"]),
                           [fn |-> "validate_symbol"])
                w2 == Call(w1, [fn |-> "get_announcements"])
                announcements == GetAnnouncements(feed.announcements)
            IN  IF ~ValidateSymbol(feed.quote)
                THEN [w |-> w1, raised |-> "invalid_symbol", announcements |-> <<>>,
                      counts |-> <<>>]
                ELSE The({[w |-> r.w, raised |-> "no",
                           announcements |-> announcements, counts |-> r.counts] :
                            r \in {CategoryLoop(
                                     1,
                                     [symbol |-> args.symbol,
                                      from_year |-> args.from_year,
                                      to_year |-> args.to_year,
                                      options |-> args.options,
                                      all_mode |-> args.all_mode,
                                      download_dir |-> setup.download_dir,
                                      announcements |-> announcements,
                                      feed |-> feed],
                                     [w |-> w2, counts |-> <<>>])}}) :
         setup \in {SetupFolder(w, base_path, args.folder_name)}})

----------------------------------------------------------------------------
(* The download command of the command line: cli.download *)

\* The key of a category as text.
CategoryText(key) ==
  CASE key = "transcripts" ->
         <<"t", "r", "a", "n", "s", "c", "r", "i", "p", "t", "s">>
    [] key = "investor_presentations" ->
         <<"i", "n", "v", "e", "s", "t", "o", "r", "_", "p", "r", "e", "s", "e", "n", "t", "a", "t", "i", "o", "n", "s">>
    [] key = "press_releases" ->
         <<"p", "r", "e", "s", "s", "_", "r", "e", "l", "e", "a", "s", "e", "s">>
    [] key = "credit_rating" ->
         <<"c", "r", "e", "d", "i", "t", "_", "r", "a", "t", "i", "n", "g">>
    [] key = "related_party_txns" ->
         <<"r", "e", "l", "a", "t", "e", "d", "_", "p", "a", "r", "t", "y", "_", "t", "x", "n", "s">>
    [] key = "annual_reports" ->
         <<"a", "n", "n", "u", "a", "l", "_", "r", "e", "p", "o", "r", "t", "s">>
    [] key = "issue_documents" ->
         <<"i", "s", "s", "u", "e", "_", "d", "o", "c", "u", "m", "e", "n", "t", "s">>

\* str.split(sep): the parts between the separators, empty ones included.
RECURSIVE SplitOn(_, _)
SplitOn(s, sep) ==
  IF \E k \in 1..Len(s) : s[k] = sep
  THEN LET k == CHOOSE k \in 1..Len(s) : s[k] = sep /\ \A j \in 1..(k - 1) : s[j] # sep
       IN  <<SubSeq(s, 1, k - 1)>> \o SplitOn(SubSeq(s, k + 1, Len(s)), sep)
  ELSE <<s>>

\* The text is one or more decimal digits.
IsDigits(s) == s # <<>> /\ \A k \in 1..Len(s) : IndexOf(s[k], Digits) > 0

\* The days of a month of the calendar.
DaysInMonth(year, month) ==
  IF month = 2
  THEN (IF year % 4 = 0 /\ (year % 100 # 0 \/ year % 400 = 0) THEN 29 ELSE 28)
  ELSE IF month \in {4, 6, 9, 11} THEN 30 ELSE 31

\* parse_date that takes any text for a date.
ParseDateAnyText(date_str) == [ok |-> TRUE, year |-> 2023]

\* parse_date(date_str): datetime.strptime(date_str, "%Y-%m-%d").  [ok, year];
\* not ok is the click.BadParameter.  Four digits of a year, one or two of a
\* month and of a day, separated by '-', that name a day of the calendar.
ParseDate(date_str) ==
  LET parts == SplitOn(date_str, "-")
  IN  IF /\ Len(parts) = 3
         /\ \A k \in 1..3 : IsDigits(parts[k])
         /\ Len(parts[1]) = 4
         /\ Len(parts[2]) <= 2
         /\ Len(parts[3]) <= 2
         /\ DigitsValue(parts[1]) >= 1
         /\ DigitsValue(parts[2]) \in 1..12
         /\ DigitsValue(parts[3])
              \in 1..DaysInMonth(DigitsValue(parts[1]), DigitsValue(parts[2]))
      THEN [ok |-> TRUE, year |-> DigitsValue(parts[1])]
      ELSE [ok |-> FALSE, year |-> 0]

\* 'all'
ALL_CATEGORIES == <<"a", "l", "l">>

\* The categories selected by the --categories text: every key for 'all' in
\* any case, else the parts between commas, stripped.
SelectedCategories(categories) ==
  IF StrLower(categories) = ALL_CATEGORIES
  THEN {CategoryText(k) : k \in CategoryKeys}
  ELSE {StrStrip(SplitOn(categories, ",")[k]) :
          k \in 1..Len(SplitOn(categories, ","))}

\* set(selected_categories) - valid_cats
InvalidCategories(categories) ==
  SelectedCategories(categories) \ {CategoryText(k) : k \in CategoryKeys}

\* The options dict: every enabled_arg, true for the selected categories.
CliOptions(categories) ==
  [arg \in {EnabledArg(k) : k \in CategoryKeys} |->
     \E k \in CategoryKeys :
       EnabledArg(k) = arg /\ CategoryText(k) \in SelectedCategories(categories)]

\* '_filings'
FILINGS_SUFFIX == <<"_", "f", "i", "l", "i", "n", "g", "s">>

\* download(symbol, from_date, to_date, categories, output,
\* annual_reports_all, output_json) run in the directory cwd against a feed;
\* fault says that the
\* service raises an exception that is no ValueError.  The result is
\* [exit_code, invoked, outcome, stream, w]: invoked says process_request was
\* called, outcome how it ended, stream where the one message went.
Download(cwd, a, feed, fault) ==
  LET start == ParseDate(a.from_date)
      end == ParseDate(a.to_date)
      folder_name == IF a.output # <<>> THEN a.output
                     ELSE StrUpper(a.symbol) \o FILINGS_SUFFIX
      error_stream == IF a.output_json THEN "stdout" ELSE "stderr"
      w0 == Mkdir(NewWorld, cwd)
  IN  IF ~start.ok \/ ~end.ok
      THEN [exit_code |-> 1, invoked |-> FALSE, outcome |-> "none",
            stream |-> error_stream, w |-> w0]
      ELSE IF InvalidCategories(a.categories) # {}
        THEN [exit_code |-> 1, invoked |-> FALSE, outcome |-> "none",
              stream |-> error_stream, w |-> w0]
      ELSE IF fault
        THEN [exit_code |-> 1, invoked |-> TRUE, outcome |-> "exception",
              stream |-> error_stream, w |-> w0]
      ELSE The({IF r.raised # "no"
                THEN [exit_code |-> 1, invoked |-> TRUE, outcome |-> "value_error",
                      stream |-> error_stream, w |-> r.w]
                ELSE [exit_code |-> 0, invoked |-> TRUE, outcome |-> "returned",
                      stream |-> "stdout", w |-> r.w] :
                  r \in {ProcessRequest(
                           w0, cwd,
                           [symbol |-> StrUpper(a.symbol), from_year |-> start.year,
                            to_year |-> end.year, folder_name |-> folder_name,
                            options |-> CliOptions(a.categories),
                            all_mode |-> a.annual_reports_all],
                           feed)}})

----------------------------------------------------------------------------
(* State *)

VARIABLES
  classifier,  \* one call of _matches_filter: its arguments and what it returned
  annual,      \* one call of _process_annual_reports
  credit,      \* calls of _process_credit_ratings against one destination folder
  issue,       \* one call of _process_issue_documents
  request,     \* one call of process_request
  sanitizer,   \* one call of get_download_path
  cli,         \* one run of the download command
  scraper,     \* one call of download_credit_ratings_from_screener
  standard,    \* runs of one standard category against one destination folder
  namer        \* the file name the scraper gives one link

vars == <<classifier, annual, credit, issue, request, sanitizer, cli, scraper, standard, namer>>

\* A component no call has been made on.
Idle == [pc |-> "off"]

\* A record that holds key k only when S holds a value for it.
Opt(k, S) == IF S = {} THEN <<>> ELSE k :> (CHOOSE v \in S : TRUE)

\* The one value of S, or none at all.
Maybe(S) == {{}} \cup {{v} : v \in S}

----------------------------------------------------------------------------
(* Inputs of the classifier *)

\* ' Credit Rating '
DESC_PADDED_CREDIT_RATING ==
  <<" ", "C", "r", "e", "d", "i", "t", " ", "R", "a", "t", "i", "n", "g", " ">>

\* 'credit ratings'
DESC_CREDIT_RATINGS ==
  <<"c", "r", "e", "d", "i", "t", " ", "r", "a", "t", "i", "n", "g", "s">>

\* 'board meeting'
DESC_OTHER ==
  <<"b", "o", "a", "r", "d", " ", "m", "e", "e", "t", "i", "n", "g">>

\* 'earnings call transcript'
TEXT_TRANSCRIPT ==
  <<"e", "a", "r", "n", "i", "n", "g", "s", " ", "c", "a", "l", "l", " ", "t", "r", "a",
     "n", "s", "c", "r", "i", "p", "t">>

\* 'Q1 Call TRANSCRIPT.pdf'
TEXT_TRANSCRIPT_MIXED ==
  <<"Q", "1", " ", "C", "a", "l", "l", " ", "T", "R", "A", "N", "S", "C", "R", "I", "P",
     "T", ".", "p", "d", "f">>

\* 'transcrip t of call'
TEXT_NEAR_MISS ==
  <<"t", "r", "a", "n", "s", "c", "r", "i", "p", " ", "t", " ", "o", "f", " ", "c", "a",
     "l", "l">>

\* 'audio recording'
TEXT_AUDIO ==
  <<"a", "u", "d", "i", "o", " ", "r", "e", "c", "o", "r", "d", "i", "n", "g">>

DescBases ==
  {DESC_TRANSCRIPTS, DESC_INVESTOR_PRESENTATION, DESC_PRESS_RELEASE,
   DESC_PRESS_RELEASE_REVISED, DESC_CREDIT_RATING, DESC_RELATED_PARTY,
   DESC_RELATED_PARTIES, DESC_CREDIT_RATINGS, DESC_OTHER}

\* A description as feeds spell it: as is, in capitals, padded, padded in capitals.
DescSpellings(s) ==
  {s, StrUpper(s), <<" ">> \o s \o <<" ">>, <<"\t">> \o StrUpper(s) \o <<" ", " ">>}

DescPool ==
  UNION {DescSpellings(s) : s \in DescBases} \cup {<<>>, DESC_PADDED_CREDIT_RATING}

TextPool == {<<>>, TEXT_TRANSCRIPT, TEXT_TRANSCRIPT_MIXED, TEXT_NEAR_MISS, TEXT_AUDIO}

\* 'f'
URL_F == <<"f">>

\* Filing records: every key may be missing, the attachment URL may be empty.
ItemPool ==
  {Opt("desc", d) @@ Opt("attchmntText", t) @@ Opt("attchmntFile", f) :
     d \in Maybe(DescPool), t \in Maybe(TextPool), f \in Maybe({<<>>, URL_F})}

\* The category keys callers pass, and one that is no category.
CategoryArgs == CategoryKeys \cup {"resignations"}

----------------------------------------------------------------------------
(* The classifier applied to one record: result is what _matches_filter
   returned for the category of the call, matched the category keys for which
   it returns true on the record. *)

InitFilter ==
  /\ classifier \in
       {[pc |-> "call", category |-> c, item |-> i, result |-> FALSE, matched |-> {}] :
          c \in CategoryArgs, i \in ItemPool}
  /\ annual = Idle
  /\ credit = Idle
  /\ issue = Idle
  /\ request = Idle
  /\ sanitizer = Idle
  /\ cli = Idle
  /\ scraper = Idle
  /\ standard = Idle
  /\ namer = Idle

ApplyMatchesFilter ==
  /\ classifier.pc = "call"
  /\ classifier' =
       [classifier EXCEPT
          !.pc = "returned",
          !.result = MatchesFilter(classifier.category, classifier.item),
          !.matched = {c \in CategoryArgs : MatchesFilter(c, classifier.item)}]
  /\ UNCHANGED <<annual, credit, issue, request, sanitizer, cli, scraper, standard, namer>>

NextFilter == ApplyMatchesFilter

SpecFilter == InitFilter /\ [][NextFilter]_vars

\* C6: a record whose attachment URL is absent or empty matches no category,
\* whatever its description and attachment text are.
C6_NoUrlNeverMatches ==
  (/\ classifier.pc = "returned"
   /\ \/ "attchmntFile" \notin DOMAIN classifier.item
      \/ classifier.item.attchmntFile = <<>>)
  => classifier.result = FALSE

\* A record with the credit-rating description and an empty URL was refused.
C6_Witness ==
  /\ classifier.pc = "returned"
  /\ classifier.category = "credit_rating"
  /\ "desc" \in DOMAIN classifier.item
  /\ classifier.item.desc = DESC_CREDIT_RATING
  /\ "attchmntFile" \in DOMAIN classifier.item
  /\ classifier.item.attchmntFile = <<>>
  /\ classifier.result = FALSE

\* The rule table of the classifier, on a description already trimmed and
\* lower-cased and an attachment text already lower-cased.
RuleTable(category, desc, text) ==
  CASE category = "transcripts" ->
         desc = DESC_TRANSCRIPTS /\ StrContains(text, KW_TRANSCRIPT)
    [] category = "investor_presentations" -> desc = DESC_INVESTOR_PRESENTATION
    [] category = "press_releases" ->
         desc = DESC_PRESS_RELEASE \/ desc = DESC_PRESS_RELEASE_REVISED
    [] category = "credit_rating" -> desc = DESC_CREDIT_RATING
    [] category = "related_party_txns" ->
         desc = DESC_RELATED_PARTY \/ desc = DESC_RELATED_PARTIES

\* C7: for a record with a non-empty attachment URL the classifier agrees with
\* the rule table on the trimmed, lower-cased description (and the lower-cased
\* attachment text), for each of the five classified categories; in particular
\* ' Credit Rating ' matches credit_rating.
C7_AgreesWithRuleTable ==
  (/\ classifier.pc = "returned"
   /\ "attchmntFile" \in DOMAIN classifier.item
   /\ classifier.item.attchmntFile # <<>>
   /\ classifier.category \in
        {"transcripts", "investor_presentations", "press_releases",
         "credit_rating", "related_party_txns"})
  => /\ classifier.result =
          RuleTable(classifier.category,
                    StrLower(StrStrip(Get(classifier.item, "desc", <<>>))),
                    StrLower(Get(classifier.item, "attchmntText", <<>>)))
     /\ (/\ classifier.category = "credit_rating"
         /\ Get(classifier.item, "desc", <<>>) = DESC_PADDED_CREDIT_RATING)
        => classifier.result = TRUE

\* ' Credit Rating ' with a URL was matched to credit_rating.
C7_Witness ==
  /\ classifier.pc = "returned"
  /\ classifier.category = "credit_rating"
  /\ "desc" \in DOMAIN classifier.item
  /\ classifier.item.desc = DESC_PADDED_CREDIT_RATING
  /\ "attchmntFile" \in DOMAIN classifier.item
  /\ classifier.item.attchmntFile = URL_F
  /\ classifier.result = TRUE

----------------------------------------------------------------------------
(* The annual-report selector applied to one listing *)

\* The most descriptors one listing holds.
MaxDocs == 2

ROOT == <<<<"o", "u", "t">>>>

YR_2020 == <<"2", "0", "2", "0">>
YR_2021 == <<"2", "0", "2", "1">>
YR_2022 == <<"2", "0", "2", "2">>
YR_2023 == <<"2", "0", "2", "3">>
\* ' 2022 '
YR_2022_PADDED == <<" ", "2", "0", "2", "2", " ">>
\* 'FY22'
YR_INVALID == <<"F", "Y", "2", "2">>

ToYrPool == {YR_2020, YR_2021, YR_2022, YR_2023, YR_2022_PADDED, YR_INVALID, <<>>}

\* 'ar/<toYr>': a URL of its own for every toYr.
ArUrl(to_yr) == <<"a", "r", "/">> \o to_yr

\* Descriptors: a URL under fileName with any toYr or none; an empty fileName
\* with the URL under url; no URL at all.
DocPool ==
  {[toYr |-> t, fileName |-> ArUrl(t)] : t \in ToYrPool}
    \cup {[fileName |-> ArUrl(<<"n", "o", "n", "e">>)]}
    \cup {[toYr |-> t, fileName |-> <<>>, url |-> <<"u", "/">> \o t] :
            t \in {YR_2021, YR_2023}}
    \cup {[toYr |-> YR_2022], [toYr |-> YR_2022, documentUrl |-> <<>>]}

\* annual_reports' answer: a dict from a year label to its descriptors, at most
\* two labels and MaxDocs descriptors in all.
ArDataPool ==
  {<<>>}
    \cup {<<[year |-> "2022", docs |-> d]>> : d \in SeqUpTo(DocPool, MaxDocs)}
    \cup {<<[year |-> "2022", docs |-> d[1]], [year |-> "2021", docs |-> d[2]]>> :
            d \in {e \in SeqUpTo(DocPool, MaxDocs) \X SeqUpTo(DocPool, MaxDocs) :
                     /\ e[1] # <<>>
                     /\ e[2] # <<>>
                     /\ Len(e[1]) + Len(e[2]) <= MaxDocs}}

ArReplies ==
  {[ok |-> FALSE, data |-> <<>>]} \cup {[ok |-> TRUE, data |-> d] : d \in ArDataPool}

\* <<from_date.year, to_date.year>>
YearRanges == {<<2021, 2022>>, <<2022, 2022>>}

InitAnnual ==
  /\ annual \in
       {[pc |-> "call", reply |-> r, from_year |-> y[1], to_year |-> y[2],
         all_mode |-> a, w |-> Mkdir(NewWorld, ROOT), count |-> 0, oks |-> <<>>] :
          r \in ArReplies, y \in YearRanges, a \in BOOLEAN}
  /\ classifier = Idle
  /\ credit = Idle
  /\ issue = Idle
  /\ request = Idle
  /\ sanitizer = Idle
  /\ cli = Idle
  /\ scraper = Idle
  /\ standard = Idle
  /\ namer = Idle

CallProcessAnnualReports ==
  /\ annual.pc = "call"
  /\ \E oks \in [1..Len(Flatten(annual.reply.data)) -> BOOLEAN] :
       \E r \in {ProcessAnnualReports(annual.w, ROOT, annual.reply, annual.from_year,
                                      annual.to_year, annual.all_mode, oks)} :
         annual' = [annual EXCEPT !.pc = "returned", !.w = r.w, !.count = r.count,
                                  !.oks = oks]
  /\ UNCHANGED <<classifier, credit, issue, request, sanitizer, cli, scraper, standard, namer>>

NextAnnual == CallProcessAnnualReports

SpecAnnual == InitAnnual /\ [][NextAnnual]_vars

\* The descriptors of the listing, in the order the selector visits them.
AnnualDocs == Flatten(annual.reply.data)

\* The descriptor has a URL and a toYr that is an integer.
HasUrlAndYear(doc) ==
  /\ \E k \in {"fileName", "url", "fileUrl", "documentUrl"} :
       k \in DOMAIN doc /\ doc[k] # <<>>
  /\ "toYr" \in DOMAIN doc
  /\ ParseInt(doc.toYr).ok

\* A download of the descriptor's URL into annual_reports was attempted.
AnnualAttempted(doc) ==
  \E i \in 1..Len(annual.w.calls) :
    /\ annual.w.calls[i].fn = "download_document"
    /\ annual.w.calls[i].url = ResolveUrl(doc)
    /\ annual.w.calls[i].folder = ROOT \o <<"annual_reports">>

\* C10: a descriptor with a URL and an integer toYr is downloaded exactly when
\* all-mode is set or from_date.year <= toYr <= to_date.year, both inclusive.
C10_AnnualRange ==
  annual.pc = "returned" =>
    \A i \in 1..Len(AnnualDocs) :
      HasUrlAndYear(AnnualDocs[i]) =>
        (AnnualAttempted(AnnualDocs[i])
           <=> \/ annual.all_mode
               \/ /\ annual.from_year <= ParseInt(AnnualDocs[i].toYr).val
                  /\ ParseInt(AnnualDocs[i].toYr).val <= annual.to_year)

\* With all-mode off, a listing held a descriptor of the range's last year,
\* which was downloaded, and one of the year after, which was not.
C10_Witness ==
  /\ annual.pc = "returned"
  /\ ~annual.all_mode
  /\ annual.from_year < annual.to_year
  /\ \E i, j \in 1..Len(AnnualDocs) :
       /\ HasUrlAndYear(AnnualDocs[i])
       /\ ParseInt(AnnualDocs[i].toYr).val = annual.to_year
       /\ AnnualAttempted(AnnualDocs[i])
       /\ HasUrlAndYear(AnnualDocs[j])
       /\ ParseInt(AnnualDocs[j].toYr).val = annual.to_year + 1
       /\ ~AnnualAttempted(AnnualDocs[j])

\* The descriptor passes the selector: it has a URL and an integer toYr, and
\* all-mode is set or the year is in the range.
AnnualSelected(doc) ==
  /\ HasUrlAndYear(doc)
  /\ \/ annual.all_mode
     \/ /\ annual.from_year <= ParseInt(doc.toYr).val
        /\ ParseInt(doc.toYr).val <= annual.to_year

\* The positions of the listing whose descriptor passes the selector.
AnnualSelectedAt == {i \in 1..Len(AnnualDocs) : AnnualSelected(AnnualDocs[i])}

\* The URLs of the selector's download_document calls, in order.
AnnualDownloadUrls ==
  [k \in 1..Len(CallsOf(annual.w, "download_document")) |->
     CallsOf(annual.w, "download_document")[k].url]

\* The URLs of the descriptors that pass the selector, in the listing's order.
RECURSIVE SelectedUrls(_)
SelectedUrls(docs) ==
  IF docs = <<>> THEN <<>>
  ELSE (IF AnnualSelected(Head(docs)) THEN <<ResolveUrl(Head(docs))>> ELSE <<>>)
         \o SelectedUrls(Tail(docs))

\* C11: the selector returns; a descriptor without a URL, without a toYr or
\* with a toYr that is no integer is not downloaded and adds nothing to the
\* count, and the descriptors around it are processed all the same: the
\* downloads are those of the descriptors that pass the selector, in order,
\* and the count is the number of them that succeeded.
C11_BadDescriptorSkipped ==
  annual.pc = "returned" =>
    /\ \A i \in 1..Len(AnnualDocs) :
         ~HasUrlAndYear(AnnualDocs[i]) => ~AnnualAttempted(AnnualDocs[i])
    /\ AnnualDownloadUrls = SelectedUrls(AnnualDocs)
    /\ annual.count = Cardinality({i \in AnnualSelectedAt : annual.oks[i]})

\* In all-mode, a listing where a descriptor with a URL and a toYr that is no
\* integer comes before a descriptor that was downloaded and counted.
C11_Witness ==
  /\ annual.pc = "returned"
  /\ annual.all_mode
  /\ annual.count > 0
  /\ \E i, k \in 1..Len(AnnualDocs) :
       /\ i < k
       /\ ResolveUrl(AnnualDocs[i]) # <<>>
       /\ Truthy(AnnualDocs[i], "toYr")
       /\ ~ParseInt(AnnualDocs[i].toYr).ok
       /\ AnnualAttempted(AnnualDocs[k])
       /\ annual.oks[k]

----------------------------------------------------------------------------
(* The credit-rating handler called again and again on one destination folder
   with one filing list *)

\* The most records one filing list holds.
MaxAnn == 2

\* 'n/a/r1', 'n/b/r1': two URLs with the same final segment; 'n/r2', 'n/r3'
URL_A_R1 == <<"n", "/", "a", "/", "r", "1">>
URL_B_R1 == <<"n", "/", "b", "/", "r", "1">>
URL_R2 == <<"n", "/", "r", "2">>
URL_R3 == <<"n", "/", "r", "3">>

\* Filing records of the credit-rating fallback: three credit ratings (two of
\* them with the same file name) and a press release.
CreditItems ==
  {[desc |-> DESC_CREDIT_RATING, attchmntText |-> <<>>, attchmntFile |-> URL_A_R1],
   [desc |-> DESC_PADDED_CREDIT_RATING, attchmntFile |-> URL_B_R1],
   [desc |-> StrUpper(DESC_CREDIT_RATING), attchmntFile |-> URL_R2],
   [desc |-> DESC_PRESS_RELEASE, attchmntFile |-> URL_R3]}

\* '4 Jul from icra'
DATE_4_JUL ==
  <<"4", " ", "J", "u", "l", " ", "f", "r", "o", "m", " ", "i", "c", "r", "a">>

\* 'i/1'
HREF_1 == <<"i", "/", "1">>

\* The company page: not found; found with an empty list of links; found with
\* one rating link.
PAGE_404 == [ok |-> TRUE, status |-> 404, divs |-> <<>>]
PAGE_NO_LINKS ==
  [ok |-> TRUE, status |-> 200, divs |-> <<[h3 |-> H3_CREDIT_RATINGS, ul |-> <<>>]>>]
PAGE_ONE_LINK ==
  [ok |-> TRUE, status |-> 200,
   divs |-> <<[h3 |-> H3_CREDIT_RATINGS,
               ul |-> <<[href |-> HREF_1, date |-> DATE_4_JUL]>>]>>]

\* The pages of the handler's runs, and what fetching the one link does there:
\* a PDF saved (primary count 1), a PDF cut short (a file, but count 0), an
\* HTML page rendered (primary count 1), an HTML page that does not render
\* (count 0).
CreditPages == {PAGE_404, PAGE_ONE_LINK}

CreditLinkOutcomes == {"pdf", "pdf_broken", "html_rendered", "html_failed"}

CREDIT_FOLDER == ROOT \o <<"credit_rating">>

\* No call yet.
NoRun == [ran |-> FALSE]

InitCredit ==
  /\ credit \in
       {[pc |-> "ready", announcements |-> a,
         w |-> [Mkdir(NewWorld, ROOT) EXCEPT !.files = f],
         last |-> NoRun, prev |-> NoRun] :
          a \in SeqUpTo(CreditItems, MaxAnn),
          f \in {{}, {<<CREDIT_FOLDER, SplitLast(URL_A_R1, "/")>>}}}
  /\ classifier = Idle
  /\ annual = Idle
  /\ issue = Idle
  /\ request = Idle
  /\ sanitizer = Idle
  /\ cli = Idle
  /\ scraper = Idle
  /\ standard = Idle
  /\ namer = Idle

\* One call of the handler.  The adapter, and with it the list of its calls,
\* is the call's own; the files stay.
CallProcessCreditRatings ==
  /\ credit.pc = "ready"
  /\ \E page \in CreditPages :
       \E outs \in [1..Len(PageLinks(page)) -> CreditLinkOutcomes] :
         \E oks \in [1..Len(credit.announcements) -> BOOLEAN] :
           \E r \in {ProcessCreditRatings([credit.w EXCEPT !.calls = <<>>], ROOT,
                                          credit.announcements, page, outs, oks)} :
               credit' =
                 [credit EXCEPT
                    !.w = r.w,
                    !.prev = credit.last,
                    !.last = [ran |-> TRUE, primary |-> r.primary,
                              count |-> r.count, trail |-> r.trail,
                              page |-> page, outs |-> outs]]
  /\ UNCHANGED <<classifier, annual, issue, request, sanitizer, cli, scraper, standard, namer>>

NextCredit == CallProcessCreditRatings

SpecCredit == InitCredit /\ [][NextCredit]_vars

\* The download_document calls of the last call of the handler.
CreditDownloads == CallsOf(credit.w, "download_document")

\* The last call returned after the primary source reported a count above 0.
PrimaryRun(run) == run.ran /\ run.primary > 0

\* The call fell back on the filing list: the primary source reported 0.
FallbackRun(run) == run.ran /\ run.primary = 0

\* The URLs the run tried to download, in order.
AttemptedUrls(run) ==
  LET tried == SelectSeq(run.trail, LAMBDA n : n.attempted)
  IN  [i \in 1..Len(tried) |-> tried[i].url]

\* C1: when the primary source returns a count above 0, download_document is
\* not called for credit ratings and the handler's count is the primary count.
C1_PrimaryShortCircuits ==
  PrimaryRun(credit.last) =>
    /\ CreditDownloads = <<>>
    /\ credit.last.count = credit.last.primary

\* A call where the primary source downloaded a rating while the filing list
\* held a credit rating that was not on disk.
C1_Witness ==
  /\ PrimaryRun(credit.last)
  /\ \E i \in 1..Len(credit.announcements) :
       /\ MatchesFilter("credit_rating", credit.announcements[i])
       /\ SplitLast(credit.announcements[i].attchmntFile, "/")
            \notin Glob(credit.w, CREDIT_FOLDER)

\* C2: when the primary source returns 0, the handler visits every record of
\* the filing list, and passes a record to download_document exactly when it
\* matches credit_rating and its file name is not in the folder at that moment;
\* the download_document calls are those records' URLs, in order, into the
\* credit_rating folder.
C2_FallbackDownloadsUnseenMatches ==
  FallbackRun(credit.last) =>
    /\ Len(credit.last.trail) = Len(credit.announcements)
    /\ \A i \in 1..Len(credit.announcements) :
         /\ credit.last.trail[i].url = credit.announcements[i].attchmntFile
         /\ credit.last.trail[i].attempted <=>
              /\ MatchesFilter("credit_rating", credit.announcements[i])
              /\ ~credit.last.trail[i].on_disk
    /\ Len(CreditDownloads) = Len(AttemptedUrls(credit.last))
    /\ \A k \in 1..Len(CreditDownloads) :
         /\ CreditDownloads[k].url = AttemptedUrls(credit.last)[k]
         /\ CreditDownloads[k].folder = CREDIT_FOLDER

\* A fallback call that downloaded one credit rating and skipped another whose
\* file name was on disk by then.
C2_Witness ==
  /\ FallbackRun(credit.last)
  /\ \E i, j \in 1..Len(credit.announcements) :
       /\ credit.last.trail[i].attempted
       /\ credit.last.trail[j].matched
       /\ credit.last.trail[j].on_disk
       /\ ~credit.last.trail[j].attempted

\* Two calls in a row, both falling back on the filing list.
TwoFallbackRuns == FallbackRun(credit.prev) /\ FallbackRun(credit.last)

\* Every download the run attempted returned true.
AllSucceeded(run) == \A i \in 1..Len(run.trail) : run.trail[i].ret = run.trail[i].attempted

----------------------------------------------------------------------------
(* SpecIssue: one call of _process_issue_documents, for the symbol 'Ab' of the
   company 'Ab Co'. *)

\* 'Ab', 'Ab Co'
SYMBOL == <<"A", "b">>
COMPANY_NAME == <<"A", "b", " ", "C", "o">>

\* ' ab ', 'cd': symbol fields of endpoint records
SYMBOL_PADDED == <<" ", "a", "b", " ">>
SYMBOL_OTHER == <<"c", "d">>

\* 'AB CO ', 'Ab', 'Cd': company fields of endpoint records
COMPANY_UPPER == <<"A", "B", " ", "C", "O", " ">>
COMPANY_SHORT == <<"A", "b">>
COMPANY_OTHER == <<"C", "d">>

\* 'd/1', 'd/2', 'd/3', ' d/2 ': attachment values of endpoint records
URL_D1 == <<"d", "/", "1">>
URL_D2 == <<"d", "/", "2">>
URL_D3 == <<"d", "/", "3">>
URL_D2_PADDED == <<" ", "d", "/", "2", " ">>

\* The company's own record: every attachment field holds a URL.
DOC_OWN ==
  [symbol |-> SYMBOL_PADDED, company |-> COMPANY_UPPER, fpAttach |-> URL_D1,
   draftAttch |-> URL_D1, finalAttach |-> URL_D2_PADDED, attachFile |-> URL_D2,
   date_attachmnt |-> URL_D1]

\* A record of another symbol whose company field is part of the company's
\* name: some attachment fields hold placeholders.
DOC_NAMESAKE ==
  [symbol |-> SYMBOL_OTHER, company |-> COMPANY_SHORT, fpAttach |-> URL_D2,
   draftAttch |-> PLACEHOLDER_DASH, finalAttach |-> URL_D3,
   attachFile |-> PLACEHOLDER_NULL, date_attachmnt |-> URL_D2]

\* A record of another company.
DOC_OTHER ==
  [symbol |-> SYMBOL_OTHER, company |-> COMPANY_OTHER, fpAttach |-> URL_D1,
   draftAttch |-> URL_D1, finalAttach |-> URL_D1, attachFile |-> URL_D1,
   date_attachmnt |-> URL_D1]

\* A record of the symbol without company field: every attachment field holds
\* a URL.
DOC_ANONYMOUS ==
  [symbol |-> SYMBOL, fpAttach |-> URL_D3, draftAttch |-> URL_D3,
   finalAttach |-> URL_D3, attachFile |-> URL_D3, date_attachmnt |-> URL_D3]

\* ' '
BLANK == <<" ">>

\* A record of another symbol whose company field is blank: attachment fields
\* that are empty, blank or missing next to fields with a URL.
DOC_BLANK ==
  [symbol |-> SYMBOL_OTHER, company |-> BLANK, fpAttach |-> URL_D3,
   draftAttch |-> BLANK, finalAttach |-> <<>>, date_attachmnt |-> URL_D3]

\* A record of the symbol and the company whose first draft field is empty.
DOC_FINAL_ONLY ==
  [symbol |-> SYMBOL, company |-> COMPANY_NAME, fpAttach |-> BLANK,
   draftAttch |-> <<>>, finalAttach |-> URL_D3, attachFile |-> URL_D3]

\* A record of the symbol under the name of another company.
DOC_RENAMED ==
  [symbol |-> SYMBOL, company |-> COMPANY_OTHER, fpAttach |-> URL_D3,
   draftAttch |-> URL_D3, finalAttach |-> URL_D3, attachFile |-> URL_D3,
   date_attachmnt |-> URL_D3]

\* What an endpoint answers: an error, no record, records of another company,
\* two records of which the handler keeps one or both, three records with
\* fields missing.
IssueReplies ==
  {[ok |-> FALSE, data |-> <<>>],
   [ok |-> TRUE, data |-> <<>>],
   [ok |-> TRUE, data |-> <<DOC_OTHER, DOC_RENAMED>>],
   [ok |-> TRUE, data |-> <<DOC_NAMESAKE, DOC_OWN>>],
   [ok |-> TRUE, data |-> <<DOC_BLANK, DOC_FINAL_ONLY, DOC_ANONYMOUS>>]}

\* What the company-name lookup answers: an error, a dict without the name,
\* the name, a blank name.
CompanyReplies ==
  {[ok |-> FALSE, data |-> <<>>],
   [ok |-> TRUE, data |-> <<>>],
   [ok |-> TRUE, data |-> [companyName |-> COMPANY_NAME]],
   [ok |-> TRUE, data |-> [companyName |-> BLANK]]}

\* The URLs whose download fails: none, one, both.
IssueDown == {{}, {URL_D1}, {URL_D1, URL_D2}}

InitIssue ==
  /\ issue \in
       {[pc |-> "call", symbol |-> SYMBOL,
         feed |-> [company |-> c, issue |-> r, down |-> d],
         w |-> Mkdir(NewWorld, ROOT), counts |-> <<>>] :
          c \in CompanyReplies, r \in [IssueDocTypes -> IssueReplies], d \in IssueDown}
  /\ classifier = Idle
  /\ annual = Idle
  /\ credit = Idle
  /\ request = Idle
  /\ sanitizer = Idle
  /\ cli = Idle
  /\ scraper = Idle
  /\ standard = Idle
  /\ namer = Idle

CallProcessIssueDocuments ==
  /\ issue.pc = "call"
  /\ \E r \in {ProcessIssueDocuments(issue.w, ROOT, issue.symbol, issue.feed)} :
       issue' = [issue EXCEPT !.pc = "returned", !.w = r.w, !.counts = r.counts]
  /\ UNCHANGED <<classifier, annual, credit, request, sanitizer, cli, scraper, standard, namer>>

NextIssue == CallProcessIssueDocuments

SpecIssue == InitIssue /\ [][NextIssue]_vars

\* The download_and_extract calls into the folder of one endpoint.
IssueDownloadsInto(config) ==
  SelectSeq(CallsOf(issue.w, "download_and_extract"),
            LAMBDA c : c.folder = ROOT \o <<ISSUE_DOCS_FOLDER, config.subfolder>>)

\* No download into the endpoint's folder succeeded (none was attempted, or
\* every one failed).
NothingDownloaded(config) ==
  \A k \in 1..Len(IssueDownloadsInto(config)) :
    IssueDownloadsInto(config)[k].url \in issue.feed.down

\* C9: the mapping _process_issue_documents returns holds exactly the five
\* endpoint labels, each with a natural number, and 0 for an endpoint that
\* answered an error or no record, that had no matching record, or whose
\* downloads all failed.
C9_AllFiveLabels ==
  issue.pc = "returned" =>
    /\ DOMAIN issue.counts = IssueLabels
    /\ \A i \in 1..Len(ISSUE_DOCS_CONFIG) :
         /\ issue.counts[ISSUE_DOCS_CONFIG[i].label] \in Nat
         /\ NothingDownloaded(ISSUE_DOCS_CONFIG[i]) =>
              issue.counts[ISSUE_DOCS_CONFIG[i].label] = 0

\* A call where one endpoint answered an error, one no record, one only
\* records that do not match, and one had all its downloads fail.
C9_Witness ==
  /\ issue.pc = "returned"
  /\ \E e1, e2, e3, e4 \in 1..Len(ISSUE_DOCS_CONFIG) :
       /\ ~issue.feed.issue[ISSUE_DOCS_CONFIG[e1].doc_type].ok
       /\ issue.feed.issue[ISSUE_DOCS_CONFIG[e2].doc_type].ok
       /\ issue.feed.issue[ISSUE_DOCS_CONFIG[e2].doc_type].data = <<>>
       /\ issue.feed.issue[ISSUE_DOCS_CONFIG[e3].doc_type].data # <<>>
       /\ IssueDownloadsInto(ISSUE_DOCS_CONFIG[e3]) = <<>>
       /\ IssueDownloadsInto(ISSUE_DOCS_CONFIG[e4]) # <<>>
       /\ NothingDownloaded(ISSUE_DOCS_CONFIG[e4])

\* The endpoints of ISSUE_DOCS_CONFIG whose symbol is reliable.
SymbolReliable ==
  {i \in 1..Len(ISSUE_DOCS_CONFIG) : ISSUE_DOCS_CONFIG[i].symbol_reliable}

\* The records the endpoint answered.
IssueRecords(config) == issue.feed.issue[config.doc_type].data

\* The URLs of the download_and_extract calls into the endpoint's folder, in
\* order.
IssueDownloadedUrls(config) ==
  [k \in 1..Len(IssueDownloadsInto(config)) |-> IssueDownloadsInto(config)[k].url]

\* The record's company field matches the resolved company name.
CompanyMatches(doc) ==
  /\ GetCompanyName(issue.feed.company) # <<>>
  /\ "company" \in DOMAIN doc
  /\ \/ StrContains(StrLower(StrStrip(GetCompanyName(issue.feed.company))),
                     StrLower(StrStrip(doc.company)))
     \/ StrContains(StrLower(StrStrip(doc.company)),
                     StrLower(StrStrip(GetCompanyName(issue.feed.company))))

----------------------------------------------------------------------------
(* Spec: one call of process_request. *)

\* The service's base path.
BASE_PATH == <<<<"b", "a", "s", "e">>>>

\* Folder names: 'run', ' r?n ' (sanitized to 'rn'); and the rejected '',
\* '  ', '..', 'a/b', 'a\b', '?*'.
FOLDER_RUN == <<"r", "u", "n">>
FOLDER_TRIMMED == <<" ", "r", "?", "n", " ">>
FOLDER_BLANK == <<" ", " ">>
FOLDER_PARENT == <<".", ".">>
FOLDER_NESTED == <<"a", "/", "b">>
FOLDER_BACKSLASH == <<"a", "\\", "b">>
FOLDER_ONLY_FORBIDDEN == <<"?", "*">>

FolderNames ==
  {FOLDER_RUN, FOLDER_TRIMMED, <<>>, FOLDER_BLANK, FOLDER_PARENT, FOLDER_NESTED,
   FOLDER_BACKSLASH, FOLDER_ONLY_FORBIDDEN}

\* The options dict with exactly the categories of keys switched on.
OptionsOn(keys) == [arg \in {EnabledArg(k) : k \in keys} |-> TRUE]

\* The options of a request and its annual_reports_all_mode.
OptionsPool ==
  {[options |-> OptionsOn({}), all_mode |-> FALSE],
   [options |-> OptionsOn({"credit_rating"}), all_mode |-> FALSE],
   [options |-> OptionsOn({"annual_reports"}), all_mode |-> FALSE],
   [options |-> OptionsOn({"annual_reports", "press_releases"}), all_mode |-> TRUE],
   [options |-> OptionsOn({"issue_documents"}), all_mode |-> FALSE],
   [options |-> OptionsOn({"transcripts", "related_party_txns"}), all_mode |-> FALSE],
   [options |-> [download_investor_presentations |-> TRUE,
                 download_press_releases |-> FALSE,
                 download_issue_documents |-> FALSE],
    all_mode |-> FALSE],
   [options |-> OptionsOn(CategoryKeys), all_mode |-> FALSE]}

\* 'n/t1', 'n/p1', 'n/q1'
URL_T1 == <<"n", "/", "t", "1">>
URL_P1 == <<"n", "/", "p", "1">>
URL_Q1 == <<"n", "/", "q", "1">>

\* A filing list with a match for every category of the filing list, a press
\* release filed twice, a press release without attachment and a revised one.
ANNOUNCEMENTS_MIXED ==
  <<[desc |-> DESC_TRANSCRIPTS, attchmntText |-> TEXT_TRANSCRIPT_MIXED,
     attchmntFile |-> URL_T1],
    [desc |-> DESC_PRESS_RELEASE, attchmntFile |-> URL_R3],
    [desc |-> DESC_PADDED_CREDIT_RATING, attchmntFile |-> URL_A_R1],
    [desc |-> StrUpper(DESC_INVESTOR_PRESENTATION), attchmntFile |-> URL_P1],
    [desc |-> DESC_RELATED_PARTIES, attchmntText |-> <<>>, attchmntFile |-> URL_Q1],
    [desc |-> DESC_PRESS_RELEASE, attchmntFile |-> URL_R3],
    [desc |-> DESC_PRESS_RELEASE],
    [desc |-> DESC_PRESS_RELEASE_REVISED, attchmntFile |-> URL_R2]>>

\* A filing list without a match for any category.
ANNOUNCEMENTS_NO_MATCH ==
  <<[desc |-> DESC_OTHER, attchmntFile |-> URL_F], [desc |-> DESC_CREDIT_RATING]>>

\* What the feed answers for the filing list.
AnnouncementReplies ==
  {[ok |-> FALSE, data |-> <<>>],
   [ok |-> TRUE, data |-> ANNOUNCEMENTS_MIXED],
   [ok |-> TRUE, data |-> ANNOUNCEMENTS_NO_MATCH]}

\* A listing of annual reports: 2020, ' 2022 ', 'FY22' and 2023.
AR_DATA ==
  <<[year |-> "2022",
     docs |-> <<[toYr |-> YR_2020, fileName |-> ArUrl(YR_2020)],
                [toYr |-> YR_2022_PADDED, fileName |-> ArUrl(YR_2022)]>>],
    [year |-> "2023",
     docs |-> <<[toYr |-> YR_INVALID, fileName |-> ArUrl(YR_INVALID)],
                [toYr |-> YR_2023, fileName |-> <<>>, url |-> ArUrl(YR_2023)]>>]>>

\* What the feed answers for the annual reports.
RequestArReplies == {[ok |-> FALSE, data |-> <<>>], [ok |-> TRUE, data |-> AR_DATA]}

\* The company page that cannot be fetched.
PAGE_DOWN == [ok |-> FALSE, status |-> 0, divs |-> <<>>]

\* What the primary source of credit ratings does: the page is missing, the
\* page cannot be fetched, the one link is saved as a PDF.
ScrapePool ==
  {[page |-> PAGE_404, outs |-> <<>>],
   [page |-> PAGE_DOWN, outs |-> <<>>],
   [page |-> PAGE_ONE_LINK, outs |-> <<"pdf">>]}

\* What the issue-document endpoints answer: errors only, nothing, a mix.
RequestIssueReplies ==
  {[t \in IssueDocTypes |-> [ok |-> FALSE, data |-> <<>>]],
   [t \in IssueDocTypes |-> [ok |-> TRUE, data |-> <<>>]],
   [t \in IssueDocTypes |->
      CASE t = "offer_documents" -> [ok |-> TRUE, data |-> <<DOC_NAMESAKE, DOC_OWN>>]
        [] t = "rights_issue" -> [ok |-> TRUE, data |-> <<DOC_OWN, DOC_OTHER>>]
        [] t = "qip_offer" -> [ok |-> TRUE, data |-> <<DOC_OTHER>>]
        [] t = "info_memorandum" -> [ok |-> FALSE, data |-> <<>>]
        [] t = "scheme_document" -> [ok |-> TRUE, data |-> <<>>]]}

\* Every URL a feed of the pool offers.
RequestUrls ==
  {URL_T1, URL_R2, URL_R3, URL_A_R1, URL_P1, URL_Q1, URL_F, URL_D1, URL_D2, URL_D3,
   ArUrl(YR_2020), ArUrl(YR_2022), ArUrl(YR_INVALID), ArUrl(YR_2023)}

\* The URLs whose download fails: none, all, some.
RequestDown == {{}, RequestUrls, {URL_R3, URL_D1, ArUrl(YR_2022)}}

\* What the quote lookup answers: a quote, an empty result, an error.
QUOTE == [priceInfo |-> "x"]

\* The feeds of a symbol the quote lookup knows.
ValidFeeds ==
  {[quote |-> [ok |-> TRUE, data |-> QUOTE], announcements |-> a, annual |-> r,
    page |-> s.page, outs |-> s.outs, company |-> c, issue |-> i, down |-> d] :
     a \in AnnouncementReplies, r \in RequestArReplies, s \in ScrapePool,
     c \in {[ok |-> FALSE, data |-> <<>>],
            [ok |-> TRUE, data |-> [companyName |-> COMPANY_NAME]]},
     i \in RequestIssueReplies, d \in RequestDown}

\* A feed with something to download for every category.
RICH_FEED ==
  [quote |-> [ok |-> TRUE, data |-> QUOTE],
   announcements |-> [ok |-> TRUE, data |-> ANNOUNCEMENTS_MIXED],
   annual |-> [ok |-> TRUE, data |-> AR_DATA],
   page |-> PAGE_ONE_LINK, outs |-> <<"pdf">>,
   company |-> [ok |-> TRUE, data |-> [companyName |-> COMPANY_NAME]],
   issue |-> [t \in IssueDocTypes |-> [ok |-> TRUE, data |-> <<DOC_NAMESAKE, DOC_OWN>>]],
   down |-> {}]

\* The rich feed for a symbol the quote lookup does not know: it answers an
\* empty result or raises.
InvalidFeeds ==
  {[RICH_FEED EXCEPT !.quote = q] :
     q \in {[ok |-> TRUE, data |-> <<>>], [ok |-> FALSE, data |-> <<>>]}}

\* The requests: every folder name with every choice of options against the
\* rich feed and the same with an unknown symbol; the accepted folder names
\* against every feed.
Requests ==
  {[args |-> [symbol |-> SYMBOL, from_year |-> 2021, to_year |-> 2022,
              folder_name |-> n, options |-> o.options, all_mode |-> o.all_mode],
    feed |-> f] :
     n \in FolderNames, o \in OptionsPool, f \in {RICH_FEED} \cup InvalidFeeds}
  \cup
  {[args |-> [symbol |-> SYMBOL, from_year |-> 2021, to_year |-> 2022,
              folder_name |-> n, options |-> o.options, all_mode |-> o.all_mode],
    feed |-> f] :
     n \in {FOLDER_RUN, FOLDER_TRIMMED}, o \in OptionsPool, f \in ValidFeeds}

Init ==
  /\ request \in
       {[pc |-> "ready", args |-> q.args, feed |-> q.feed,
         w |-> Mkdir(NewWorld, BASE_PATH), raised |-> "no", announcements |-> <<>>,
         counts |-> <<>>] : q \in Requests}
  /\ classifier = Idle
  /\ annual = Idle
  /\ credit = Idle
  /\ issue = Idle
  /\ sanitizer = Idle
  /\ cli = Idle
  /\ scraper = Idle
  /\ standard = Idle
  /\ namer = Idle

\* One call of process_request, to its return or to the error it raises.
CallProcessRequest ==
  /\ request.pc = "ready"
  /\ \E r \in {ProcessRequest(request.w, BASE_PATH, request.args, request.feed)} :
       request' = [request EXCEPT
                     !.pc = IF r.raised = "no" THEN "returned" ELSE "raised",
                     !.w = r.w, !.raised = r.raised,
                     !.announcements = r.announcements, !.counts = r.counts]
  /\ UNCHANGED <<classifier, annual, credit, issue, sanitizer, cli, scraper, standard, namer>>

Next == CallProcessRequest

Spec == Init /\ [][Next]_vars

\* The functions of the collaborators the call has invoked.
RequestCalled == {request.w.calls[k].fn : k \in 1..Len(request.w.calls)}

\* The quote lookup of the request's symbol came back empty or raised.
QuoteLookupFailed == ~request.feed.quote.ok \/ request.feed.quote.data = <<>>

\* C4: when the symbol's validation fails, process_request raises the
\* invalid-symbol error having called nothing but the adapter's constructor and
\* validate_symbol: no fetch of the filing list, no download, no scrape, no
\* issue-document query.
C4_InvalidSymbolRaisesFirst ==
  (request.pc # "ready" /\ "validate_symbol" \in RequestCalled /\ QuoteLookupFailed) =>
    /\ request.pc = "raised"
    /\ request.raised = "invalid_symbol"
    /\ RequestCalled = {"NSEAdapter", "validate_symbol"}
    /\ request.w.files = {}

\* A request for an unknown symbol, all categories switched on, against a feed
\* with documents for every category.
C4_Witness ==
  /\ request.pc = "raised"
  /\ request.raised = "invalid_symbol"
  /\ request.args.options = OptionsOn(CategoryKeys)
  /\ request.feed.announcements.data # <<>>

\* C5: when the sanitizer rejects the folder name, process_request raises that
\* error having made no call at all: no adapter, no validation, no fetch, no
\* download.
C5_InvalidFolderRaisesFirst ==
  (request.pc # "ready" /\ ~SanitizeFolderName(request.args.folder_name).ok) =>
    /\ request.pc = "raised"
    /\ request.raised = "invalid_folder"
    /\ request.w.calls = <<>>
    /\ request.w.files = {}

\* A request with a rejected folder name, a known symbol and all categories
\* switched on, against a feed with documents for every category.
C5_Witness ==
  /\ request.pc = "raised"
  /\ request.raised = "invalid_folder"
  /\ request.args.folder_name = FOLDER_ONLY_FORBIDDEN
  /\ request.feed = RICH_FEED
  /\ request.args.options = OptionsOn(CategoryKeys)

\* The category is switched on in the request's options.
RequestEnabled(key) == Enabled(request.args.options, key)

\* The categories process_request handles itself, by the classifier.
StandardKeys == CategoryKeys \ {"credit_rating", "annual_reports", "issue_documents"}

\* No record of the returned filing list matches the category.
NoMatch(key) ==
  \A k \in 1..Len(request.announcements) : ~MatchesFilter(key, request.announcements[k])

\* C8 as stated: the counts of a returned request hold a natural number under
\* the label of every enabled category.
C8_LabelOfEveryEnabledCategory ==
  request.pc = "returned" =>
    \A key \in CategoryKeys :
      RequestEnabled(key) =>
        /\ CategoryLabel(key) \in DOMAIN request.counts
        /\ request.counts[CategoryLabel(key)] \in Nat

\* C8: the counts of a returned request hold a natural number under the label
\* of every enabled category other than issue_documents, 0 for a standard
\* category without a match in the filing list; issue_documents, when enabled,
\* adds the five endpoint labels and not a label of its own; nothing else is
\* there.
C8_LabelOfEveryEnabledCategoryButIssue ==
  request.pc = "returned" =>
    /\ DOMAIN request.counts =
         {CategoryLabel(key) : key \in {k \in CategoryKeys \ {"issue_documents"} :
                                          RequestEnabled(k)}}
           \cup (IF RequestEnabled("issue_documents") THEN IssueLabels ELSE {})
    /\ \A label \in DOMAIN request.counts : request.counts[label] \in Nat
    /\ \A key \in StandardKeys :
         (RequestEnabled(key) /\ NoMatch(key)) => request.counts[CategoryLabel(key)] = 0

\* A returned request with every category switched on and a filing list
\* without a match.
C8_Witness ==
  /\ request.pc = "returned"
  /\ request.args.options = OptionsOn(CategoryKeys)
  /\ request.announcements # <<>>
  /\ \A key \in CategoryKeys : NoMatch(key)
  /\ request.counts[CategoryLabel("press_releases")] = 0

\* The folder of the request: get_download_path of its folder name.
RequestDir == PathJoin(BASE_PATH, SanitizeFolderName(request.args.folder_name).val)

\* The download calls of the request into one folder, in order.
RequestDownloadsInto(folder) ==
  SelectSeq(request.w.calls,
            LAMBDA c : /\ c.fn \in {"download_document", "download_and_extract"}
                       /\ c.folder = folder)

\* How many of the download calls into the folder succeeded.
SucceededInto(folder) ==
  Cardinality({k \in 1..Len(RequestDownloadsInto(folder)) :
                 RequestDownloadsInto(folder)[k].url \notin request.feed.down})

\* The attachment URLs of the records of the returned filing list that match
\* the category, in the list's order.
RECURSIVE MatchingUrls(_, _)
MatchingUrls(key, items) ==
  IF items = <<>> THEN <<>>
  ELSE (IF MatchesFilter(key, Head(items)) THEN <<Head(items).attchmntFile>> ELSE <<>>)
         \o MatchingUrls(key, Tail(items))

\* The primary source of credit ratings saved a document in this request.
PrimarySaved ==
  \E f \in request.w.files :
    /\ f[1] = RequestDir \o <<"credit_rating">>
    /\ f[2] = CreditRatingFilename(PAGE_ONE_LINK.divs[1].ul[1])

\* C13: in a returned request a download that fails stops nothing.  A standard
\* category attempts every matching record of the filing list, in order; every
\* enabled category has its count; and each count is the number of the
\* category's downloads that succeeded (for credit ratings the primary
\* source's count when it saved a document, for issue documents one count per
\* endpoint).
C13_FailedDownloadStopsNothing ==
  request.pc = "returned" =>
    /\ \A key \in StandardKeys :
         RequestEnabled(key) =>
           /\ [k \in 1..Len(RequestDownloadsInto(RequestDir \o <<key>>)) |->
                 RequestDownloadsInto(RequestDir \o <<key>>)[k].url]
                = MatchingUrls(key, request.announcements)
           /\ request.counts[CategoryLabel(key)] = SucceededInto(RequestDir \o <<key>>)
    /\ RequestEnabled("annual_reports") =>
         request.counts[CategoryLabel("annual_reports")]
           = SucceededInto(RequestDir \o <<"annual_reports">>)
    /\ RequestEnabled("credit_rating") =>
         request.counts[CategoryLabel("credit_rating")]
           = IF PrimarySaved THEN 1 ELSE SucceededInto(RequestDir \o <<"credit_rating">>)
    /\ RequestEnabled("issue_documents") =>
         \A i \in 1..Len(ISSUE_DOCS_CONFIG) :
           request.counts[ISSUE_DOCS_CONFIG[i].label]
             = SucceededInto(RequestDir \o <<ISSUE_DOCS_FOLDER,
                                             ISSUE_DOCS_CONFIG[i].subfolder>>)

\* A returned request where the press releases' first two downloads failed
\* and the third succeeded, and the annual reports, processed later, had a
\* failed download followed by one that succeeded.
C13_Witness ==
  /\ request.pc = "returned"
  /\ RequestEnabled("press_releases")
  /\ Len(RequestDownloadsInto(RequestDir \o <<"press_releases">>)) = 3
  /\ request.counts[CategoryLabel("press_releases")] = 1
  /\ RequestEnabled("annual_reports")
  /\ Len(RequestDownloadsInto(RequestDir \o <<"annual_reports">>)) = 3
  /\ request.counts[CategoryLabel("annual_reports")] = 2

\* The labels a returned request has a count for: the label of every enabled
\* category but the issue documents, which give the labels of their endpoints.
ExpectedLabels ==
  {CategoryLabel(key) : key \in {k \in CategoryKeys \ {"issue_documents"} :
                                   RequestEnabled(k)}}
    \cup (IF RequestEnabled("issue_documents") THEN IssueLabels ELSE {})

\* Every collaborator of the request but the quote lookup failed: the filing
\* list, the listing of annual reports, the company page, the company-name
\* lookup and every issue-document endpoint.
EveryFetchFailed ==
  /\ ~request.feed.announcements.ok
  /\ ~request.feed.annual.ok
  /\ request.feed.page \in {PAGE_DOWN, PAGE_404}
  /\ ~request.feed.company.ok
  /\ \A t \in IssueDocTypes : ~request.feed.issue[t].ok

FetchesOfFilingList ==
  {k \in 1..Len(request.w.calls) : request.w.calls[k].fn = "get_announcements"}

\* What the adapter hands back for the filing list of the request's feed.
FetchedFilingList == GetAnnouncements(request.feed.announcements)

\* The URLs the fallback of the credit ratings attempts: those of the credit
\* rating records of the list whose file name was not in the folder before.
RequestCreditUrls ==
  [k \in 1..Len(RequestDownloadsInto(RequestDir \o <<"credit_rating">>)) |->
     RequestDownloadsInto(RequestDir \o <<"credit_rating">>)[k].url]

\* C15: a process_request that passed validation fetched the filing list
\* exactly once, as its first call after the validation and so before any
\* call of a category; the list it returns is the one fetched, whichever
\* categories are switched on; and the categories scanned this list: a
\* standard category attempted the matching records of it, the fallback of the
\* credit ratings only credit rating records of it.
C15_FilingListFetchedOnce ==
  request.pc = "returned" =>
    /\ FetchesOfFilingList = {3}
    /\ request.w.calls[1].fn = "NSEAdapter"
    /\ request.w.calls[2].fn = "validate_symbol"
    /\ request.announcements = FetchedFilingList
    /\ \A key \in StandardKeys :
         RequestEnabled(key) =>
           [k \in 1..Len(RequestDownloadsInto(RequestDir \o <<key>>)) |->
              RequestDownloadsInto(RequestDir \o <<key>>)[k].url]
             = MatchingUrls(key, FetchedFilingList)
    /\ \A k \in 1..Len(RequestCreditUrls) :
         \E i \in 1..Len(FetchedFilingList) :
           /\ MatchesFilter("credit_rating", FetchedFilingList[i])
           /\ FetchedFilingList[i].attchmntFile = RequestCreditUrls[k]

\* A returned request with no category switched on that hands back the list
\* of eight records.
C15_Witness ==
  /\ request.pc = "returned"
  /\ request.args.options = OptionsOn({})
  /\ request.announcements = ANNOUNCEMENTS_MIXED
  /\ Len(request.w.calls) = 3

\* A returned request with every category switched on whose categories made
\* calls after the one fetch of the list.
C15_WitnessAllCategories ==
  /\ request.pc = "returned"
  /\ request.args.options = OptionsOn(CategoryKeys)
  /\ request.announcements = ANNOUNCEMENTS_MIXED
  /\ Len(RequestDownloadsInto(RequestDir \o <<"press_releases">>)) = 3
  /\ Len(RequestCreditUrls) = 1

----------------------------------------------------------------------------
(* get_download_path and sanitize_folder_name on every short folder name *)

\* The longest folder name tried.
MaxName == 3

\* The characters of the folder names tried: a letter, the dot, a blank, the
\* two separators and two of the characters the sanitizer removes.
NameChars == {"a", ".", " ", "/", "\\", ":", "*"}

\* Every folder name of at most MaxName characters.
NamePool == UNION {[1..n -> NameChars] : n \in 0..MaxName}

InitSanitize ==
  /\ sanitizer \in {[pc |-> "ready", name |-> n, val |-> <<>>, path |-> <<>>] :
                      n \in NamePool}
  /\ classifier = Idle
  /\ annual = Idle
  /\ credit = Idle
  /\ issue = Idle
  /\ request = Idle
  /\ cli = Idle
  /\ scraper = Idle
  /\ standard = Idle
  /\ namer = Idle

\* One call of get_download_path(base, name): val is the sanitized name, path
\* the path returned; "raised" is the ValueError of the sanitizer.
CallGetDownloadPath ==
  /\ sanitizer.pc = "ready"
  /\ \E r \in {GetDownloadPath(BASE_PATH, sanitizer.name)} :
       sanitizer' = [sanitizer EXCEPT
                       !.pc = IF r.ok THEN "returned" ELSE "raised",
                       !.val = SanitizeFolderName(sanitizer.name).val,
                       !.path = r.val]
  /\ UNCHANGED <<classifier, annual, credit, issue, request, cli, scraper, standard, namer>>

NextSanitize == CallGetDownloadPath

SpecSanitize == InitSanitize /\ [][NextSanitize]_vars

\* The path is a direct child of the base directory: the base followed by one
\* part that is a name and neither the directory itself nor its parent.
IsDirectChild(path, base) ==
  /\ Len(path) = Len(base) + 1
  /\ SubSeq(path, 1, Len(base)) = base
  /\ path[Len(path)] \notin {<<".">>, DOT_DOT}

\* C16: when get_download_path returns, the sanitized name is not empty, holds
\* no separator, no '..' and none of the characters the sanitizer removes, and
\* the path is a direct child of the base directory.
C16_SafeNameOrError ==
  sanitizer.pc = "returned" =>
    /\ sanitizer.val # <<>>
    /\ \A k \in 1..Len(sanitizer.val) : sanitizer.val[k] \notin ForbiddenChars
    /\ ~StrContains(sanitizer.val, DOT_DOT)
    /\ IsDirectChild(sanitizer.path, BASE_PATH)

\* The name '.:.' is accepted and sanitized to '..': the path returned is the
\* parent of the base directory.
C16_Witness ==
  /\ sanitizer.pc = "returned"
  /\ sanitizer.name = <<".", ":", ".">>
  /\ sanitizer.val = DOT_DOT
  /\ sanitizer.path = BASE_PATH \o <<DOT_DOT>>

\* What the sanitizer does ensure of a name it returns: it is not empty and
\* holds no separator and none of the characters it removes.
C16_NameWithoutSeparators ==
  sanitizer.pc = "returned" =>
    /\ sanitizer.val # <<>>
    /\ \A k \in 1..Len(sanitizer.val) : sanitizer.val[k] \notin ForbiddenChars

----------------------------------------------------------------------------
(* The download command on a pool of command lines *)

\* '2021-01-01'
DATE_FROM == <<"2", "0", "2", "1", "-", "0", "1", "-", "0", "1">>
\* '2022-12-31'
DATE_TO == <<"2", "0", "2", "2", "-", "1", "2", "-", "3", "1">>
\* '2022-2-5'
DATE_SHORT == <<"2", "0", "2", "2", "-", "2", "-", "5">>
\* '2024-02-29'
DATE_LEAP == <<"2", "0", "2", "4", "-", "0", "2", "-", "2", "9">>
\* '2023-02-29'
DATE_NO_LEAP == <<"2", "0", "2", "3", "-", "0", "2", "-", "2", "9">>
\* '2022-13-01'
DATE_MONTH_13 == <<"2", "0", "2", "2", "-", "1", "3", "-", "0", "1">>
\* '2022/01/01'
DATE_SLASHES == <<"2", "0", "2", "2", "/", "0", "1", "/", "0", "1">>
\* '01-01-2022'
DATE_DAY_FIRST == <<"0", "1", "-", "0", "1", "-", "2", "0", "2", "2">>
\* 'today'
DATE_WORD == <<"t", "o", "d", "a", "y">>

\* The dates strptime takes, and those it rejects: 29 February of a common
\* year, a month 13, slashes, the day first, a word, nothing.
GoodDates == {DATE_FROM, DATE_TO, DATE_SHORT, DATE_LEAP}
BadDates == {DATE_NO_LEAP, DATE_MONTH_13, DATE_SLASHES, DATE_DAY_FIRST, DATE_WORD, <<>>}

\* 'ALL'
CATS_ALL_UPPER == <<"A", "L", "L">>
\* 'transcripts, credit_rating'
CATS_TWO_PADDED == <<"t", "r", "a", "n", "s", "c", "r", "i", "p", "t", "s", ",", " ", "c", "r", "e", "d", "i", "t", "_", "r", "a", "t", "i", "n", "g">>
\* 'issue_documents'
CATS_ISSUE == <<"i", "s", "s", "u", "e", "_", "d", "o", "c", "u", "m", "e", "n", "t", "s">>
\* 'transcripts,bogus'
CATS_UNKNOWN == <<"t", "r", "a", "n", "s", "c", "r", "i", "p", "t", "s", ",", "b", "o", "g", "u", "s">>
\* 'Transcripts'
CATS_CAPITAL == <<"T", "r", "a", "n", "s", "c", "r", "i", "p", "t", "s">>
\* 'press_releases,'
CATS_TRAILING_COMMA == <<"p", "r", "e", "s", "s", "_", "r", "e", "l", "e", "a", "s", "e", "s", ",">>

\* The --categories texts that name categories only, and those with a name
\* that is no category: an unknown word, a capital letter, an empty part,
\* nothing.
KnownCategoryTexts == {ALL_CATEGORIES, CATS_ALL_UPPER, CATS_TWO_PADDED, CATS_ISSUE}
UnknownCategoryTexts == {CATS_UNKNOWN, CATS_CAPITAL, CATS_TRAILING_COMMA, <<>>}

\* The command lines: --output absent, a folder name, a rejected folder name.
CommandLines ==
  {[symbol |-> SYMBOL, from_date |-> f, to_date |-> t, categories |-> c,
    output |-> o, annual_reports_all |-> FALSE, output_json |-> j] :
     f \in GoodDates \cup BadDates, t \in {DATE_TO, DATE_LEAP, DATE_MONTH_13},
     c \in KnownCategoryTexts \cup UnknownCategoryTexts,
     o \in {<<>>, FOLDER_RUN, FOLDER_PARENT}, j \in BOOLEAN}

InitCli ==
  /\ cli \in {[pc |-> "ready", args |-> a, feed |-> f, fault |-> x, exit_code |-> 0,
               invoked |-> FALSE, outcome |-> "none", stream |-> "none",
               w |-> NewWorld] :
                a \in CommandLines, f \in {RICH_FEED} \cup InvalidFeeds, x \in BOOLEAN}
  /\ classifier = Idle
  /\ annual = Idle
  /\ credit = Idle
  /\ issue = Idle
  /\ request = Idle
  /\ sanitizer = Idle
  /\ scraper = Idle
  /\ standard = Idle
  /\ namer = Idle

\* One run of the download command, to its exit.
RunDownload ==
  /\ cli.pc = "ready"
  /\ \E r \in {Download(BASE_PATH, cli.args, cli.feed, cli.fault)} :
       cli' = [cli EXCEPT !.pc = "exited", !.exit_code = r.exit_code,
                          !.invoked = r.invoked, !.outcome = r.outcome,
                          !.stream = r.stream, !.w = r.w]
  /\ UNCHANGED <<classifier, annual, credit, issue, request, sanitizer, scraper, standard, namer>>

NextCli == RunDownload

SpecCli == InitCli /\ [][NextCli]_vars

\* A date of the command line is unparsable.
CliBadDate == cli.args.from_date \in BadDates \/ cli.args.to_date \in BadDates

\* The --categories text of the command line has an unknown name.
CliUnknownCategory == cli.args.categories \in UnknownCategoryTexts

\* C17: the download command exits with 0 exactly when it called
\* process_request and the call returned, and with 1 otherwise: on an
\* unparsable date and on an unknown category, both without calling the
\* service (no call of a collaborator at all), on a ValueError of the service
\* and on any other exception.
C17_ExitCodes ==
  cli.pc = "exited" =>
    /\ cli.exit_code \in {0, 1}
    /\ cli.exit_code = 0 <=> (cli.invoked /\ cli.outcome = "returned")
    /\ (CliBadDate \/ CliUnknownCategory) =>
         /\ cli.exit_code = 1
         /\ ~cli.invoked
         /\ cli.w.calls = <<>>
    /\ (cli.invoked /\ cli.outcome \in {"value_error", "exception"}) =>
         cli.exit_code = 1
    /\ ~(CliBadDate \/ CliUnknownCategory) => cli.invoked

\* The command exited with 1 on 29 February 2023 without calling the service,
\* although the symbol, the folder and the categories were good.
C17_Witness ==
  /\ cli.pc = "exited"
  /\ cli.exit_code = 1
  /\ ~cli.invoked
  /\ cli.args.from_date = DATE_NO_LEAP
  /\ cli.args.to_date = DATE_TO
  /\ cli.args.categories = ALL_CATEGORIES
  /\ cli.feed = RICH_FEED
  /\ ~cli.fault

\* The command exited with 0 after process_request returned.
C17_WitnessSuccess ==
  /\ cli.pc = "exited"
  /\ cli.exit_code = 0
  /\ cli.outcome = "returned"
  /\ cli.args.categories = CATS_TWO_PADDED
  /\ "download_document" \in {cli.w.calls[k].fn : k \in 1..Len(cli.w.calls)}

\* The command exited with 1 on the ValueError of an unknown symbol.
C17_WitnessValueError ==
  /\ cli.pc = "exited"
  /\ cli.exit_code = 1
  /\ cli.outcome = "value_error"
  /\ cli.feed \in InvalidFeeds
  /\ cli.args.output = <<>>

----------------------------------------------------------------------------
(* download_credit_ratings_from_screener on a pool of company pages *)

\* The most links a credit ratings list of the pool holds.
MaxLinks == 2

\* '4 Jul, from icra': a snippet that gives the file name of '4 Jul from icra'.
DATE_4_JUL_COMMA == <<"4", " ", "J", "u", "l", ",", " ", "f", "r", "o", "m", " ", "i", "c", "r", "a">>

\* 'i/2', 'i/3'
HREF_2 == <<"i", "/", "2">>
HREF_3 == <<"i", "/", "3">>

\* The links of the pool: two with snippets that give one file name, one
\* without snippet.
LINK_1 == [href |-> HREF_1, date |-> DATE_4_JUL]
LINK_2 == [href |-> HREF_2, date |-> DATE_4_JUL_COMMA]
LINK_3 == [href |-> HREF_3]
LinkPool == {LINK_1, LINK_2, LINK_3}

\* ' Credit Ratings ', 'Annual reports'
H3_PADDED_CREDIT_RATINGS == <<" ", "C", "r", "e", "d", "i", "t", " ", "R", "a", "t", "i", "n", "g", "s", " ">>
H3_ANNUAL_REPORTS == <<"A", "n", "n", "u", "a", "l", " ", "r", "e", "p", "o", "r", "t", "s">>

\* A page that answers 404 with a body that has a credit ratings list.
PAGE_404_WITH_LINKS ==
  [ok |-> TRUE, status |-> 404,
   divs |-> <<[h3 |-> H3_CREDIT_RATINGS, ul |-> <<LINK_1>>]>>]

\* A page without credit ratings section: a block without heading and a block
\* with another heading, both with links.
PAGE_NO_SECTION ==
  [ok |-> TRUE, status |-> 200,
   divs |-> <<[ul |-> <<LINK_1>>], [h3 |-> H3_ANNUAL_REPORTS, ul |-> <<LINK_3>>]>>]

\* A page whose credit ratings section has no list of links; a later block of
\* the same heading has one.
PAGE_NO_LIST ==
  [ok |-> TRUE, status |-> 200,
   divs |-> <<[h3 |-> H3_PADDED_CREDIT_RATINGS],
              [h3 |-> H3_CREDIT_RATINGS, ul |-> <<LINK_1>>]>>]

\* A page whose credit ratings list is empty; a later block of the same
\* heading has a link.
PAGE_EMPTY_LIST ==
  [ok |-> TRUE, status |-> 200,
   divs |-> <<[h3 |-> H3_CREDIT_RATINGS, ul |-> <<>>],
              [h3 |-> H3_CREDIT_RATINGS, ul |-> <<LINK_3>>]>>]

\* The pages on which the scraper has nothing to walk.
StatusPages == {PAGE_404, PAGE_404_WITH_LINKS}
EarlyReturnPages ==
  StatusPages \cup {PAGE_NO_SECTION, PAGE_NO_LIST, PAGE_NO_LINKS, PAGE_EMPTY_LIST}

\* A page whose credit ratings section, after a block of another heading,
\* lists the links.
LinksPage(links) ==
  [ok |-> TRUE, status |-> 200,
   divs |-> <<[h3 |-> H3_ANNUAL_REPORTS, ul |-> <<LINK_3>>],
              [h3 |-> H3_PADDED_CREDIT_RATINGS, ul |-> links]>>]

ScraperPages ==
  EarlyReturnPages \cup {PAGE_DOWN}
    \cup {LinksPage(links) : links \in SeqUpTo(LinkPool, MaxLinks) \ {<<>>}}

\* The file names the links of the pool are saved under.
ScraperFilenames == {CreditRatingFilename(l) : l \in LinkPool}

InitScraper ==
  /\ scraper \in
       {[pc |-> "ready", page |-> p, existing |-> e, outs |-> <<>>,
         w |-> [Mkdir(NewWorld, CREDIT_FOLDER)
                  EXCEPT !.files = {<<CREDIT_FOLDER, n>> : n \in e}],
         count |-> 0, notes |-> <<>>] :
          p \in ScraperPages, e \in SUBSET ScraperFilenames}
  /\ classifier = Idle
  /\ annual = Idle
  /\ credit = Idle
  /\ issue = Idle
  /\ request = Idle
  /\ sanitizer = Idle
  /\ cli = Idle
  /\ standard = Idle
  /\ namer = Idle

\* One call of download_credit_ratings_from_screener; what fetching each
\* link does is the environment's choice.
CallScraper ==
  /\ scraper.pc = "ready"
  /\ \E outs \in [1..Len(PageLinks(scraper.page)) -> LinkOutcomes] :
       \E r \in {DownloadCreditRatingsFromScreener(scraper.w, ROOT, scraper.page,
                                                   outs)} :
         scraper' = [scraper EXCEPT !.pc = "returned", !.outs = outs, !.w = r.w,
                                    !.count = r.count, !.notes = r.notes]
  /\ UNCHANGED <<classifier, annual, credit, issue, request, sanitizer, cli, standard, namer>>

NextScraper == CallScraper

SpecScraper == InitScraper /\ [][NextScraper]_vars

\* The fetches of linked documents and the renders the call made.
ScraperFetches ==
  SelectSeq(scraper.w.calls,
            LAMBDA c : c.fn \in {"requests.get", "_download_with_selenium"})

\* The files of the destination folder.
ScraperFiles == Glob(scraper.w, CREDIT_FOLDER)

\* C18: on a company page that answers with another status than 200, or has
\* no 'credit ratings' section, or no list of links in that section, or no
\* link in that list, the scraper returns 0 having fetched and rendered no
\* linked document and written no file.
C18_EarlyReturnFetchesNothing ==
  (scraper.pc = "returned" /\ scraper.page \in EarlyReturnPages) =>
    /\ scraper.count = 0
    /\ ScraperFetches = <<>>
    /\ scraper.notes = <<>>
    /\ ScraperFiles = scraper.existing

\* The scraper returned on a page of 200 whose blocks have links but none is a
\* credit ratings section.
C18_Witness ==
  /\ scraper.pc = "returned"
  /\ scraper.page = PAGE_NO_SECTION
  /\ scraper.count = 0
  /\ scraper.existing = {}

\* The fetch of link i returned a response.
Fetched(i) == scraper.notes[i].out \notin {"ssl_error", "conn_error"}

\* Link i was skipped: its fetch returned, and the scraper neither streamed
\* nor rendered it.
Skipped(i) == Fetched(i) /\ ~scraper.notes[i].tried

\* The file name of link i was marked seen at an earlier link of this run.
SeenThisRun(i) ==
  \E j \in 1..(i - 1) :
    /\ scraper.notes[j].filename = scraper.notes[i].filename
    /\ scraper.notes[j].marked

\* A file of the name of link i was in the destination folder when the run
\* began.
OnDiskAtStart(i) == scraper.notes[i].filename \in scraper.existing

\* Link i was written to its end, marked seen and counted, and its file is in
\* the folder.
WrittenMarkedCounted(i) ==
  /\ scraper.notes[i].saved
  /\ scraper.notes[i].marked
  /\ scraper.notes[i].counted
  /\ scraper.notes[i].filename \in ScraperFiles

\* C19 as stated: a link whose fetch returned is skipped exactly when its file
\* name was seen earlier in the same run; one whose name was not yet seen this
\* run and that streams or renders is written, marked seen and counted.
C19_SkippedIffSeenThisRun ==
  scraper.pc = "returned" =>
    \A i \in 1..Len(scraper.notes) :
      /\ Fetched(i) => (Skipped(i) <=> SeenThisRun(i))
      /\ (~SeenThisRun(i) /\ scraper.notes[i].out \in {"pdf", "html_rendered"})
           => WrittenMarkedCounted(i)

\* C19: a link whose fetch returned is skipped exactly when its file name was
\* in the destination folder when the run began or was marked seen earlier in
\* the run; one whose name is neither and that streams or renders is written,
\* marked seen and counted.
C19_SkippedIffSeenOrOnDisk ==
  scraper.pc = "returned" =>
    \A i \in 1..Len(scraper.notes) :
      /\ Fetched(i) => (Skipped(i) <=> (SeenThisRun(i) \/ OnDiskAtStart(i)))
      /\ (/\ ~SeenThisRun(i)
          /\ ~OnDiskAtStart(i)
          /\ scraper.notes[i].out \in {"pdf", "html_rendered"})
           => WrittenMarkedCounted(i)

\* A run of two links: the first is a PDF whose file name was in the folder
\* before the run and is skipped, the second is written and counted.
C19_Witness ==
  /\ scraper.pc = "returned"
  /\ Len(scraper.notes) = 2
  /\ scraper.notes[1].out = "pdf"
  /\ OnDiskAtStart(1)
  /\ Skipped(1)
  /\ ~OnDiskAtStart(2)
  /\ scraper.notes[2].out = "html_rendered"
  /\ WrittenMarkedCounted(2)
  /\ scraper.count = 1

\* A run of two links of one file name, not in the folder before: the first is
\* written, the second skipped.
C19_WitnessSameRun ==
  /\ scraper.pc = "returned"
  /\ scraper.existing = {}
  /\ Len(scraper.notes) = 2
  /\ WrittenMarkedCounted(1)
  /\ SeenThisRun(2)
  /\ Skipped(2)

\* The outcomes of a link that are failures: of the network, of SSL, of the
\* stream, of the render.
FailedOutcomes == {"ssl_error", "conn_error", "pdf_broken", "html_failed"}

\* The hrefs the call fetched with requests.get, in order.
FetchedHrefs ==
  [k \in 1..Len(CallsOf(scraper.w, "requests.get")) |->
     CallsOf(scraper.w, "requests.get")[k].url]

\* The links streamed as PDF to their end, and the links rendered.
StreamedLinks ==
  {i \in 1..Len(scraper.notes) :
     scraper.notes[i].out = "pdf" /\ scraper.notes[i].tried}
RenderedLinks ==
  {i \in 1..Len(scraper.notes) :
     scraper.notes[i].out = "html_rendered" /\ scraper.notes[i].tried}

\* C20: on a page with links the scraper's loop reaches every link whatever
\* failed before it (one fetch per link, in the order of the list); a link
\* whose fetch, stream or render failed adds nothing to the count; and the
\* total returned is the number of links streamed as PDF plus the number of
\* links rendered.
C20_FailuresDoNotStopTheLoop ==
  (scraper.pc = "returned" /\ PageLinks(scraper.page) # <<>>) =>
    /\ Len(scraper.notes) = Len(PageLinks(scraper.page))
    /\ FetchedHrefs = [k \in 1..Len(PageLinks(scraper.page)) |->
                         PageLinks(scraper.page)[k].href]
    /\ \A i \in 1..Len(scraper.notes) :
         /\ scraper.notes[i].out = scraper.outs[i]
         /\ scraper.notes[i].out \in FailedOutcomes => ~scraper.notes[i].counted
         /\ scraper.notes[i].counted <=> i \in StreamedLinks \cup RenderedLinks
    /\ scraper.count = Cardinality(StreamedLinks) + Cardinality(RenderedLinks)

\* A run of two links: the fetch of the first fails on SSL, the second is an
\* HTML page that is rendered and counted.
C20_Witness ==
  /\ scraper.pc = "returned"
  /\ Len(scraper.notes) = 2
  /\ scraper.notes[1].out = "ssl_error"
  /\ scraper.notes[2].out = "html_rendered"
  /\ scraper.notes[2].counted
  /\ scraper.count = 1

\* A run of two links: the render of the first fails, the second is streamed
\* as PDF and counted.
C20_WitnessRenderFailed ==
  /\ scraper.pc = "returned"
  /\ Len(scraper.notes) = 2
  /\ scraper.notes[1].out = "html_failed"
  /\ scraper.notes[1].tried
  /\ scraper.notes[2].out = "pdf"
  /\ scraper.count = 1

----------------------------------------------------------------------------
(* The issue documents: fields probed, records kept *)

\* The records of the endpoint the handler keeps.
KeptRecords(config) ==
  SelectSeq(IssueRecords(config),
            LAMBDA doc : IssueMatches(config, doc, issue.symbol,
                                      GetCompanyName(issue.feed.company)))

\* The value of every configured attachment field of every kept record,
\* trimmed, record by record and field by field; <<>> for a missing field.
FieldValues(config) ==
  [n \in 1..(Len(KeptRecords(config)) * Len(config.attachment_fields)) |->
     StrStrip(Get(KeptRecords(config)[((n - 1) \div Len(config.attachment_fields)) + 1],
                  config.attachment_fields[((n - 1) % Len(config.attachment_fields)) + 1],
                  <<>>))]

\* The value is a URL to fetch: not empty and no placeholder.
Usable(v) == v # <<>> /\ v # PLACEHOLDER_DASH /\ v # PLACEHOLDER_NULL

\* C21: for every endpoint the download_and_extract calls are the usable
\* values of all configured attachment fields of the kept records, in order
\* (none for an empty value or a placeholder), and the endpoint's count is the
\* number of these calls that succeeded.
C21_EveryFieldProbed ==
  issue.pc = "returned" =>
    \A i \in 1..Len(ISSUE_DOCS_CONFIG) :
      /\ IssueDownloadedUrls(ISSUE_DOCS_CONFIG[i])
           = SelectSeq(FieldValues(ISSUE_DOCS_CONFIG[i]), Usable)
      /\ issue.counts[ISSUE_DOCS_CONFIG[i].label]
           = Cardinality({k \in 1..Len(IssueDownloadsInto(ISSUE_DOCS_CONFIG[i])) :
                            IssueDownloadsInto(ISSUE_DOCS_CONFIG[i])[k].url
                              \notin issue.feed.down})

\* The rights-issue endpoint, with two attachment fields, answered the record
\* whose both fields hold a URL: two downloads of one record, count 2.
C21_Witness ==
  /\ issue.pc = "returned"
  /\ issue.feed.down = {}
  /\ issue.feed.issue["rights_issue"].data = <<DOC_NAMESAKE, DOC_OWN>>
  /\ issue.counts["Rights Issue"] = 2
  /\ \E i \in SymbolReliable :
       IssueDownloadedUrls(ISSUE_DOCS_CONFIG[i]) = <<URL_D1, URL_D2>>

\* The rights-issue endpoint answered a kept record whose first field is empty
\* and whose second holds a URL: one download.
C21_WitnessEmptyField ==
  /\ issue.pc = "returned"
  /\ issue.feed.down = {}
  /\ issue.feed.issue["rights_issue"].data = <<DOC_BLANK, DOC_FINAL_ONLY, DOC_ANONYMOUS>>
  /\ issue.counts["Rights Issue"] = 3

\* The endpoints of ISSUE_DOCS_CONFIG whose symbol is not reliable.
SymbolUnreliable == (1..Len(ISSUE_DOCS_CONFIG)) \ SymbolReliable

\* The company name the lookup resolved, trimmed and in lower case.
ResolvedName == StrLower(StrStrip(GetCompanyName(issue.feed.company)))

\* The record's company field, trimmed and in lower case ('' when missing).
CompanyField(doc) == StrLower(StrStrip(Get(doc, "company", <<>>)))

\* The resolved name contains the record's company field or is contained in
\* it.
NamesContainOneAnother(doc) ==
  \/ StrContains(ResolvedName, CompanyField(doc))
  \/ StrContains(CompanyField(doc), ResolvedName)

\* C22: when the lookup resolved a company name, the downloads of an endpoint
\* whose symbol is not reliable are the attachments of exactly the records
\* whose company field, trimmed and lower-cased, contains the trimmed and
\* lower-cased resolved name or is contained in it, whatever their symbol
\* fields hold.
C22_KeptByCompanyName ==
  (issue.pc = "returned" /\ GetCompanyName(issue.feed.company) # <<>>) =>
    \A i \in SymbolUnreliable :
      IssueDownloadedUrls(ISSUE_DOCS_CONFIG[i]) =
        IssueUrls(SelectSeq(IssueRecords(ISSUE_DOCS_CONFIG[i]), NamesContainOneAnother),
                  ISSUE_DOCS_CONFIG[i].attachment_fields, 1, 1)

\* With the name 'Ab Co' resolved, an endpoint whose symbol is not reliable
\* kept the record of company 'Ab' and symbol 'cd' and the record of company
\* 'AB CO ', while another such endpoint dropped the record of the requested
\* symbol under the company 'Cd'.
C22_Witness ==
  /\ issue.pc = "returned"
  /\ GetCompanyName(issue.feed.company) = COMPANY_NAME
  /\ issue.feed.issue["offer_documents"].data = <<DOC_NAMESAKE, DOC_OWN>>
  /\ IssueDownloadedUrls(ISSUE_DOCS_CONFIG[1]) = <<URL_D2, URL_D1>>
  /\ issue.feed.issue["qip_offer"].data = <<DOC_OTHER, DOC_RENAMED>>
  /\ IssueDownloadedUrls(ISSUE_DOCS_CONFIG[3]) = <<>>

----------------------------------------------------------------------------
(* The classifier: one category at most *)

\* C23: no record makes _matches_filter return true for two different
\* category keys.
C23_AtMostOneCategory ==
  classifier.pc = "returned" => Cardinality(classifier.matched) <= 1

\* A press release in capitals, padded, whose attachment text speaks of a
\* transcript, matched press_releases and nothing else.
C23_Witness ==
  /\ classifier.pc = "returned"
  /\ "desc" \in DOMAIN classifier.item
  /\ classifier.item.desc = <<"\t">> \o StrUpper(DESC_PRESS_RELEASE) \o <<" ", " ">>
  /\ "attchmntText" \in DOMAIN classifier.item
  /\ classifier.item.attchmntText = TEXT_TRANSCRIPT_MIXED
  /\ classifier.matched = {"press_releases"}

----------------------------------------------------------------------------
(* A standard category, run and run again: the pass of process_request's
   category loop for one of transcripts, investor_presentations,
   press_releases and related_party_txns, against a destination folder that
   keeps its files from one run to the next.  calls is the log of the current
   run, before the calls of the run before it. *)

\* How many times the category is run against the folder.
MaxRuns == 2

\* The folder of the request.
STANDARD_DIR == PathJoin(BASE_PATH, FOLDER_RUN)

\* The pass of the category loop for a standard category: the folder is
\* made, every record of the filing list goes through the filter, count is the
\* number of downloads that returned true.
StandardCategory(w, cat_key, announcements, download_dir, down) ==
  StandardLoop(cat_key, announcements, 1, download_dir \o <<cat_key>>, down,
               [w |-> Mkdir(w, download_dir \o <<cat_key>>), count |-> 0])

\* The filing lists of the runs.
StandardLists == {<<>>, ANNOUNCEMENTS_MIXED, ANNOUNCEMENTS_NO_MATCH}

\* The URLs whose download fails in a run: none, the press release filed
\* twice, all.
StandardDown == {{}, {URL_R3}, RequestUrls}

\* What the folder of the category holds before the first run: nothing, or
\* the documents of the filing list.
StandardExisting(key) ==
  {{}, {<<STANDARD_DIR \o <<key>>, SplitLast(u, "/")>> :
          u \in {URL_T1, URL_R2, URL_R3, URL_P1, URL_Q1}}}

InitStandard ==
  /\ standard \in
       {[pc |-> "ready", key |-> k, announcements |-> a, down |-> d, run |-> 1,
         w |-> [Mkdir(NewWorld, STANDARD_DIR) EXCEPT !.files = e],
         before |-> e, count |-> 0, prev |-> <<>>] :
          k \in StandardKeys, a \in StandardLists, d \in StandardDown,
          e \in UNION {StandardExisting(key) : key \in StandardKeys}}
  /\ classifier = Idle
  /\ annual = Idle
  /\ credit = Idle
  /\ issue = Idle
  /\ request = Idle
  /\ sanitizer = Idle
  /\ cli = Idle
  /\ scraper = Idle
  /\ namer = Idle

\* One run of the category over the filing list.
RunStandardCategory ==
  /\ standard.pc = "ready"
  /\ \E r \in {StandardCategory(standard.w, standard.key, standard.announcements,
                                STANDARD_DIR, standard.down)} :
       standard' = [standard EXCEPT !.pc = "returned", !.w = r.w, !.count = r.count]
  /\ UNCHANGED <<classifier, annual, credit, issue, request, sanitizer, cli, scraper, namer>>

\* The same request is made again: the folder keeps its files, the log of
\* calls starts anew, the downloads that fail are the environment's choice.
RunStandardAgain ==
  /\ standard.pc = "returned"
  /\ standard.run < MaxRuns
  /\ \E d \in StandardDown :
       standard' = [standard EXCEPT !.pc = "ready", !.run = @ + 1, !.down = d,
                                    !.before = standard.w.files,
                                    !.prev = standard.w.calls,
                                    !.w = [standard.w EXCEPT !.calls = <<>>],
                                    !.count = 0]
  /\ UNCHANGED <<classifier, annual, credit, issue, request, sanitizer, cli, scraper, namer>>

NextStandard == RunStandardCategory \/ RunStandardAgain

SpecStandard == InitStandard /\ [][NextStandard]_vars

\* The folder of the category.
StandardFolder == STANDARD_DIR \o <<standard.key>>

\* The URLs download_document was called with in a log of calls, in order.
DocumentUrls(calls) ==
  [k \in 1..Len(SelectSeq(calls, LAMBDA c : c.fn = "download_document")) |->
     SelectSeq(calls, LAMBDA c : c.fn = "download_document")[k].url]

\* The records of the filing list that have a URL and a description (and, for
\* transcripts, a text) of the category.
StandardMatching ==
  SelectSeq(standard.announcements,
            LAMBDA item :
              /\ Truthy(item, "attchmntFile")
              /\ <<standard.key, StrLower(StrStrip(Get(item, "desc", <<>>)))>>
                   \in {<<"transcripts", DESC_TRANSCRIPTS>>,
                        <<"investor_presentations", DESC_INVESTOR_PRESENTATION>>,
                        <<"press_releases", DESC_PRESS_RELEASE>>,
                        <<"press_releases", DESC_PRESS_RELEASE_REVISED>>,
                        <<"related_party_txns", DESC_RELATED_PARTY>>,
                        <<"related_party_txns", DESC_RELATED_PARTIES>>}
              /\ standard.key = "transcripts" =>
                   StrContains(StrLower(Get(item, "attchmntText", <<>>)),
                               KW_TRANSCRIPT))

\* C24: a standard category applies no deduplication.  In every run
\* download_document is called once for each matching record of the filing
\* list, in the list's order and into the category's folder, whether or not
\* the file is in the folder already and whether or not the URL was met
\* before; a later run makes the calls of the run before it.
C24_NoDeduplication ==
  standard.pc = "returned" =>
    /\ DocumentUrls(standard.w.calls)
         = [k \in 1..Len(StandardMatching) |-> StandardMatching[k].attchmntFile]
    /\ \A k \in 1..Len(standard.w.calls) :
         standard.w.calls[k].fn = "download_document" =>
           standard.w.calls[k].folder = StandardFolder
    /\ standard.run > 1 => DocumentUrls(standard.w.calls) = DocumentUrls(standard.prev)

\* The second run of the press releases, every download of the first having
\* succeeded: the folder held the three documents, and the press release
\* filed twice was downloaded twice again, the revised one once.
C24_Witness ==
  /\ standard.pc = "returned"
  /\ standard.run = 2
  /\ standard.key = "press_releases"
  /\ {<<StandardFolder, SplitLast(u, "/")>> : u \in {URL_R3, URL_R2}}
       \subseteq standard.before
  /\ DocumentUrls(standard.prev) = <<URL_R3, URL_R3, URL_R2>>
  /\ DocumentUrls(standard.w.calls) = <<URL_R3, URL_R3, URL_R2>>
  /\ standard.count = 3

\* The first run into a folder that holds the documents of the filing list
\* already downloads them all the same.
C24_WitnessFolderFull ==
  /\ standard.pc = "returned"
  /\ standard.run = 1
  /\ standard.key = "transcripts"
  /\ <<StandardFolder, SplitLast(URL_T1, "/")>> \in standard.before
  /\ DocumentUrls(standard.w.calls) = <<URL_T1>>
  /\ standard.count = 1

----------------------------------------------------------------------------
(* The scraper's file name for one link: lines 187-200 and 223 of
   download_credit_ratings_from_screener, on a link with or without the div of
   the date snippet. *)

\* The longest snippet.
MaxSnippet == 4

\* The characters of the snippets: a digit, a capital, a small letter, a
\* space, a comma, an underscore.
SnippetChars == {"4", "J", "u", " ", ",", "_"}

\* '4 Jul from icra'
SNIPPET_ICRA ==
  <<"4", " ", "J", "u", "l", " ", "f", "r", "o", "m", " ", "i", "c", "r", "a">>

\* The snippets: every string of the characters up to the longest, and the
\* one of the page's example.
Snippets ==
  UNION {[1..n -> SnippetChars] : n \in 0..MaxSnippet} \cup {SNIPPET_ICRA}

\* The links: without the div, and with every snippet.
NamedLinks ==
  {[href |-> HREF_1]} \cup {[href |-> HREF_1, date |-> d] : d \in Snippets}

InitNamer ==
  /\ namer \in {[pc |-> "ready", link |-> l, filename |-> <<>>] : l \in NamedLinks}
  /\ classifier = Idle
  /\ annual = Idle
  /\ credit = Idle
  /\ issue = Idle
  /\ request = Idle
  /\ sanitizer = Idle
  /\ cli = Idle
  /\ scraper = Idle
  /\ standard = Idle

\* The loop body names the link's file.
NameLink ==
  /\ namer.pc = "ready"
  /\ namer' = [namer EXCEPT !.pc = "named", !.filename = CreditRatingFilename(namer.link)]
  /\ UNCHANGED <<classifier, annual, credit, issue, request, sanitizer, cli, scraper,
                 standard>>

NextNamer == NameLink

SpecNamer == InitNamer /\ [][NextNamer]_vars

\* 'CreditRating-' and '.pdf'
NAME_PREFIX == <<"C", "r", "e", "d", "i", "t", "R", "a", "t", "i", "n", "g", "-">>
NAME_SUFFIX == <<".", "p", "d", "f">>

\* The token of the file name: what stands between prefix and suffix.
NameToken ==
  SubSeq(namer.filename, Len(NAME_PREFIX) + 1, Len(namer.filename) - Len(NAME_SUFFIX))

\* The maximal runs of alphanumerics of a string, in order; cur is the run
\* being read.
RECURSIVE AlnumRuns(_, _)
AlnumRuns(s, cur) ==
  IF s = <<>> THEN (IF cur = <<>> THEN <<>> ELSE <<cur>>)
  ELSE IF Head(s) \in AlnumChars THEN AlnumRuns(Tail(s), Append(cur, Head(s)))
  ELSE (IF cur = <<>> THEN <<>> ELSE <<cur>>) \o AlnumRuns(Tail(s), <<>>)

\* The link's snippet, none when the link has no div for it.
NameSnippet == IF "date" \in DOMAIN namer.link THEN namer.link.date ELSE <<>>

\* C25: the file name is 'CreditRating-<token>.pdf'.  The token is not empty,
\* holds alphanumerics and underscores only, no two underscores in a row, none
\* at either end; it is the snippet's runs of alphanumerics joined by one
\* underscore each, and 'Unknown_Date' when the snippet is absent or has no
\* alphanumeric.
C25_FilenameToken ==
  namer.pc = "named" =>
    /\ Len(namer.filename) >= Len(NAME_PREFIX) + Len(NAME_SUFFIX)
    /\ SubSeq(namer.filename, 1, Len(NAME_PREFIX)) = NAME_PREFIX
    /\ SubSeq(namer.filename, Len(namer.filename) - Len(NAME_SUFFIX) + 1,
              Len(namer.filename)) = NAME_SUFFIX
    /\ NameToken # <<>>
    /\ \A i \in 1..Len(NameToken) : NameToken[i] \in AlnumChars \cup {"_"}
    /\ \A i \in 1..(Len(NameToken) - 1) : ~(NameToken[i] = "_" /\ NameToken[i + 1] = "_")
    /\ NameToken[1] # "_"
    /\ NameToken[Len(NameToken)] # "_"
    /\ AlnumRuns(NameToken, <<>>)
         = IF AlnumRuns(NameSnippet, <<>>) = <<>>
           THEN <<<<"U", "n", "k", "n", "o", "w", "n">>, <<"D", "a", "t", "e">>>>
           ELSE AlnumRuns(NameSnippet, <<>>)

\* '4 Jul from icra' was named 'CreditRating-4_Jul_from_icra.pdf'.
C25_Witness ==
  /\ namer.pc = "named"
  /\ NameSnippet = SNIPPET_ICRA
  /\ NameToken = <<"4", "_", "J", "u", "l", "_", "f", "r", "o", "m", "_", "i", "c", "r", "a">>

\* A run of two non-alphanumerics between alphanumerics became one
\* underscore: '4, J' was named 'CreditRating-4_J.pdf'.
C25_WitnessRun ==
  /\ namer.pc = "named"
  /\ NameSnippet = <<"4", ",", " ", "J">>
  /\ NameToken = <<"4", "_", "J">>

\* A snippet without an alphanumeric was named 'CreditRating-Unknown_Date.pdf'.
C25_WitnessPlaceholder ==
  /\ namer.pc = "named"
  /\ "date" \in DOMAIN namer.link
  /\ namer.link.date = <<",", "_">>
  /\ NameToken = UNKNOWN_DATE

----------------------------------------------------------------------------
(* The credit-rating handler run again on the folder it filled *)

\* The page of the run lists a link, and every fetch or render of the run
\* succeeded.
PrimaryAllSucceeded(run) ==
  /\ run.ran
  /\ PageLinks(run.page) # <<>>
  /\ \A k \in 1..Len(run.outs) : run.outs[k] \in {"pdf", "html_rendered"}

\* C26 as stated: when the page lists a link and every fetch or render
\* succeeds, the handler does not go on to the filing list, in a first run and
\* in a run that follows one against the same folder.
C26_NoFallbackWhenPrimarySucceeds ==
  PrimaryAllSucceeded(credit.last) => ~FallbackRun(credit.last)

\* Two runs against one page with one link, every fetch succeeding in both.
\* The first saved the link's document and returned 1; the second found the
\* file name on disk, counted nothing, and went on to the filing list, from
\* which it downloaded a filing.
C26_Witness ==
  /\ PrimaryAllSucceeded(credit.prev)
  /\ PrimaryAllSucceeded(credit.last)
  /\ credit.prev.page = credit.last.page
  /\ credit.prev.primary = 1
  /\ credit.last.primary = 0
  /\ CreditDownloads # <<>>
  /\ credit.last.count > 0

----------------------------------------------------------------------------
(* The issue documents: records without a company *)

\* The record has a company field that is not empty once trimmed.
HasCompany(doc) == CompanyField(doc) # <<>>

\* C27 as stated: on an endpoint whose symbol is not reliable a record whose
\* company field is empty or missing is never kept, so the downloads of the
\* endpoint are the attachments of the kept records that name a company.
C27_EmptyCompanyNeverSelected ==
  issue.pc = "returned" =>
    \A i \in SymbolUnreliable :
      IssueDownloadedUrls(ISSUE_DOCS_CONFIG[i]) =
        IssueUrls(SelectSeq(IssueRecords(ISSUE_DOCS_CONFIG[i]),
                            LAMBDA doc : HasCompany(doc) /\ NamesContainOneAnother(doc)),
                  ISSUE_DOCS_CONFIG[i].attachment_fields, 1, 1)

\* With the name 'Ab Co' resolved, the offer documents endpoint answered a
\* record of another symbol with a blank company field, the company's record
\* with a blank attachment, and a record without company field: the two
\* attachments downloaded are those of the records without a company.
C27_Witness ==
  /\ issue.pc = "returned"
  /\ GetCompanyName(issue.feed.company) = COMPANY_NAME
  /\ issue.feed.issue["offer_documents"].data = <<DOC_BLANK, DOC_FINAL_ONLY, DOC_ANONYMOUS>>
  /\ issue.feed.down = {}
  /\ ~HasCompany(DOC_BLANK)
  /\ ~HasCompany(DOC_ANONYMOUS)
  /\ Usable(StrStrip(Get(DOC_FINAL_ONLY, "fpAttach", <<>>))) = FALSE
  /\ IssueDownloadedUrls(ISSUE_DOCS_CONFIG[1]) = <<URL_D3, URL_D3>>
  /\ issue.counts[ISSUE_DOCS_CONFIG[1].label] = 2

----------------------------------------------------------------------------
(* The request for an unknown symbol: what is left on disk *)

\* The folders there were before the request.
DirsBefore == Mkdir(NewWorld, BASE_PATH).dirs

----------------------------------------------------------------------------
(* The scraper: what it returns and what it leaves in the folder *)

\* The files of the destination folder that were not there before the call.
ScraperNewFiles == ScraperFiles \ scraper.existing

\* C29 as stated: the scraper returns the number of files that are in the
\* folder and were not there before the call, so a link that was not counted
\* has left no file.
C29_CountIsNewFiles ==
  scraper.pc = "returned" => scraper.count = Cardinality(ScraperNewFiles)

\* A call on a page with one link into an empty folder: the link answered a
\* PDF whose stream failed part-way.  The call returned 0 and the link's file
\* is in the folder.
C29_Witness ==
  /\ scraper.pc = "returned"
  /\ scraper.existing = {}
  /\ PageLinks(scraper.page) = <<LINK_1>>
  /\ scraper.outs = <<"pdf_broken">>
  /\ scraper.count = 0
  /\ ScraperFiles = {CreditRatingFilename(LINK_1)}

----------------------------------------------------------------------------
(* The issue documents without a company name *)

\* The lookup of the company name raised, or answered no name.
NoCompanyName == GetCompanyName(issue.feed.company) = <<>>

\* The record's symbol field, trimmed, is the requested symbol whatever the
\* case.
SymbolField(doc) == StrUpper(StrStrip(Get(doc, "symbol", <<>>))) = StrUpper(issue.symbol)

\* C30: when the lookup of the company name fails or gives no name, every
\* endpoint whose symbol is not reliable reports 0 and downloads nothing,
\* whatever records it answered; the endpoint whose symbol is reliable keeps
\* the records of the symbol, downloads their attachments and reports the
\* downloads that succeeded.
C30_NoNameNoCompanyMatch ==
  (issue.pc = "returned" /\ NoCompanyName) =>
    /\ \A i \in SymbolUnreliable :
         /\ issue.counts[ISSUE_DOCS_CONFIG[i].label] = 0
         /\ IssueDownloadsInto(ISSUE_DOCS_CONFIG[i]) = <<>>
    /\ \A i \in SymbolReliable :
         /\ IssueDownloadedUrls(ISSUE_DOCS_CONFIG[i]) =
              IssueUrls(SelectSeq(IssueRecords(ISSUE_DOCS_CONFIG[i]), SymbolField),
                        ISSUE_DOCS_CONFIG[i].attachment_fields, 1, 1)
         /\ issue.counts[ISSUE_DOCS_CONFIG[i].label]
              = Cardinality({k \in 1..Len(IssueDownloadsInto(ISSUE_DOCS_CONFIG[i])) :
                               IssueDownloadsInto(ISSUE_DOCS_CONFIG[i])[k].url
                                 \notin issue.feed.down})

\* The lookup raised.  The QIP endpoint answered two records, one of them of
\* the requested symbol, and reported 0 without a download; the rights-issue
\* endpoint kept the record of the symbol and downloaded its two attachments.
C30_Witness ==
  /\ issue.pc = "returned"
  /\ ~issue.feed.company.ok
  /\ issue.feed.issue["qip_offer"].data = <<DOC_OTHER, DOC_RENAMED>>
  /\ issue.counts[ISSUE_DOCS_CONFIG[3].label] = 0
  /\ IssueDownloadsInto(ISSUE_DOCS_CONFIG[3]) = <<>>
  /\ issue.feed.issue["rights_issue"].data = <<DOC_NAMESAKE, DOC_OWN>>
  /\ IssueDownloadedUrls(ISSUE_DOCS_CONFIG[2]) = <<URL_D1, URL_D2>>
  /\ issue.counts[ISSUE_DOCS_CONFIG[2].label] = 2

\* The lookup answered a dict without the name: the same.
C30_WitnessNoNameInReply ==
  /\ issue.pc = "returned"
  /\ issue.feed.company.ok
  /\ NoCompanyName
  /\ issue.feed.issue["offer_documents"].data = <<DOC_BLANK, DOC_FINAL_ONLY, DOC_ANONYMOUS>>
  /\ issue.counts[ISSUE_DOCS_CONFIG[1].label] = 0
  /\ issue.feed.issue["rights_issue"].data = <<DOC_BLANK, DOC_FINAL_ONLY, DOC_ANONYMOUS>>
  /\ issue.counts[ISSUE_DOCS_CONFIG[2].label] > 0

============================================================================
